---- MODULE Spec2Model ----
(***************************************************************************)
(* ContextPoolRenderingEngine of cornerstone3D                             *)
(* (packages/core/src/types/ECGViewportProperties.ts): a pool of shared    *)
(* offscreen WebGL contexts, the assignment of viewports to contexts, the  *)
(* frame callback that renders the flagged viewports and the resize of the *)
(* vtk.js driven viewports.                                                *)
(*                                                                         *)
(* WebGLContextPool and BaseRenderingEngine are imported by that file but  *)
(* are not among the sources; the operators that stand for them are marked *)
(* as such where they are defined.                                         *)
(***************************************************************************)
EXTENDS Integers, Naturals, Sequences, FiniteSets, TLC

\* ------------------------------------------------------------------ bounds
\* image ids handed to setEcg
MaxBoxes == 2
MaxChannels == 2
MaxSamples == 2
NumImageIds == 2
\* channel indices handed to setChannelVisibility: 0..MaxChannelIndex
MaxChannelIndex == 2
NumViewports == 3
\* largest webGlContextCount tried
MaxPool == 2
\* ids used by the specifications that resize and render
NumRenderViewports == 2

\* --------------------------------------------------------------- constants
NumToolViewports == 2
MaxTimers == 2
MaxObservers == 2
VIEWPORT_MIN_SIZE == 2

Ids == 1..NumViewports
RenderIds == 1..NumRenderViewports

GpuTypes == {"STACK", "ORTHOGRAPHIC", "PERSPECTIVE", "VOLUME_3D"}
CustomTypes == {"ECG"}
UnsupportedTypes == {"UNSUPPORTED"}

\* displayed sizes of an on-screen canvas, in device pixels (the device pixel
\* ratio is 1): hidden, below the minimum, and two sizes that differ in height
ClientSizes == {<<0, 0>>, <<1, 1>>, <<3, 2>>, <<3, 3>>}
\* the size of a canvas element that was never given one (wider than high)
DefaultCanvas == <<3, 2>>

VARIABLES
  orient,             \* OrientationControllerTool: markers, timers, observers
  tool,               \* text boxes: the registry of a viewport, the last call
  loader,             \* ECGHelpers: the metadata given, the module, the result
  ecg,                \* an ECGViewport: its private fields and its canvas
  useCPURendering,    \* useCPURendering of the engine
  poolSize,           \* rendering.webGlContextCount
  viewportOrder,      \* keys of _viewports, in insertion order
  vp,                 \* _viewports: id -> viewport object
  canvas,             \* on-screen canvas of each element: width, height, aspect
  client,             \* displayed size of each on-screen canvas
  pool,               \* contextPool: viewportToContext, viewportSizes, contextMaxSizes
  container,          \* offscreen canvas container of each context: width, height
  renderers,          \* renderers of each context's multi render window
  widgets,            \* widget renderer of a viewport: its draw flag
  needsRender,        \* _needsRender, a Set: its ids in insertion order
  animationFrameSet,  \* _animationFrameSet
  frameCallbacks,     \* frame callbacks registered with requestAnimationFrame
  pc,                 \* position inside _renderFlaggedViewports
  queue,              \* viewportsToRender still to be rendered in this frame
  eventDetails,       \* eventDetails collected in this frame
  hist                \* observations: what an outside observer has recorded

vars == <<orient, tool, loader, ecg, useCPURendering, poolSize, viewportOrder, vp, canvas, client, pool, container,
          renderers, widgets, needsRender, animationFrameSet, frameCallbacks,
          pc, queue, eventDetails, hist>>

\* ----------------------------------------------------------------- helpers
Put(f, k, val) == [x \in DOMAIN f \cup {k} |-> IF x = k THEN val ELSE f[x]]
Drop(f, k) == [x \in DOMAIN f \ {k} |-> f[x]]
Max2(a, b) == IF a >= b THEN a ELSE b
SeqToSet(s) == {s[i] : i \in 1..Len(s)}
Without(s, x) == SelectSeq(s, LAMBDA y : y # x)

RECURSIVE Gcd(_, _)
Gcd(a, b) == IF b = 0 THEN a ELSE Gcd(b, a % b)

\* a / b as a reduced fraction <<numerator, denominator>>
Ratio(a, b) == LET g == Gcd(a, b) IN <<a \div g, b \div g>>

\* Math.min(1, a / b) for a > 0, b >= 0 (a / 0 is Infinity)
MinOneRatio(a, b) == IF a >= b THEN <<1, 1>> ELSE Ratio(a, b)

Contexts == 0..(poolSize - 1)
UsesCustomPipeline(type) == type \in CustomTypes

\* -------------------------------------------------------- WebGLContextPool
PoolContextOf(p, id) ==
  IF id \in DOMAIN p.viewportToContext THEN p.viewportToContext[id] ELSE -1

PoolAssign(p, id, ci) ==
  [p EXCEPT !.viewportToContext = Put(p.viewportToContext, id, ci)]

\* component-wise maximum over the sizes of the viewports assigned to ci
PoolComputeMax(p, ci) ==
  LET on == {x \in DOMAIN p.viewportSizes : PoolContextOf(p, x) = ci}
      Largest(S) == IF S = {} THEN 0 ELSE CHOOSE m \in S : \A y \in S : y <= m
  IN <<Largest({p.viewportSizes[x][1] : x \in on}),
       Largest({p.viewportSizes[x][2] : x \in on})>>

PoolWithSize(p, id, w, h) ==
  [p EXCEPT !.viewportSizes = Put(p.viewportSizes, id, <<w, h>>)]

\* updateViewportSize: the pool after the call
PoolUpdateViewportSize(p, id, w, h) ==
  IF PoolContextOf(p, id) = -1 THEN p
  ELSE LET q == PoolWithSize(p, id, w, h)
           ci == PoolContextOf(p, id)
       IN [q EXCEPT !.contextMaxSizes[ci] = PoolComputeMax(q, ci)]

\* updateViewportSize: its return value (the maximum of the context changed)
PoolMaxSizeChanged(p, id, w, h) ==
  /\ PoolContextOf(p, id) # -1
  /\ PoolUpdateViewportSize(p, id, w, h).contextMaxSizes
       # p.contextMaxSizes

PoolMaxSize(p, ci) == p.contextMaxSizes[ci]

PoolRemoveViewport(p, id) ==
  LET ci == PoolContextOf(p, id)
      q == [p EXCEPT !.viewportToContext = Drop(p.viewportToContext, id),
                     !.viewportSizes = Drop(p.viewportSizes, id)]
  IN IF ci = -1 THEN q
     ELSE [q EXCEPT !.contextMaxSizes[ci] = PoolComputeMax(q, ci)]

\* ---------------------------------------------------------------- canvases
\* updateCanvasSizeAndAspectRatio(canvas): size from the displayed rect
CanvasFromRect(c, rect) ==
  IF rect[1] > 0 /\ rect[2] > 0
  THEN [width |-> rect[1], height |-> rect[2], aspect |-> rect]
  ELSE c

\* a mutant of CanvasFromExtent: the aspect ratio is left as it was
CanvasFromExtentKeepsAspect(c, w, h) ==
  IF w < 1 \/ h < 1 THEN c
  ELSE [width |-> w, height |-> h, aspect |-> c.aspect]

\* updateCanvasSizeAndAspectRatio(canvas, extent): size from a render result
CanvasFromExtent(c, w, h) ==
  IF w < 1 \/ h < 1 THEN c
  ELSE IF c.width # w \/ c.height # h
       THEN [width |-> w, height |-> h, aspect |-> <<w, h>>]
       ELSE c

\* the canvas getOrCreateCanvas creates for an element that has none
FreshCanvas ==
  [width |-> DefaultCanvas[1], height |-> DefaultCanvas[2], aspect |-> <<>>]

DefaultCamera == [zoom |-> 1, flipHorizontal |-> FALSE, rotation |-> 0]

\* ------------------------------------------------------- rational numbers
\* a number of the waveform viewport: <<numerator, denominator>>, reduced,
\* with a positive denominator
Abs(n) == IF n < 0 THEN -n ELSE n
Q(n, d) ==
  LET g == Gcd(Abs(n), Abs(d))
      sign == IF d < 0 THEN -1 ELSE 1
  IN <<sign * (n \div g), sign * (d \div g)>>
QInt(n) == <<n, 1>>
QAdd(x, y) == Q(x[1] * y[2] + y[1] * x[2], x[2] * y[2])
QSub(x, y) == Q(x[1] * y[2] - y[1] * x[2], x[2] * y[2])
QMul(x, y) == Q(x[1] * y[1], x[2] * y[2])
QDiv(x, y) == Q(x[1] * y[2], x[2] * y[1])
QLeq(x, y) == x[1] * y[2] <= y[1] * x[2]
QLess(x, y) == x[1] * y[2] < y[1] * x[2]
QAbs(x) == <<Abs(x[1]), x[2]>>
\* Math.floor
QFloor(x) == IF x[1] >= 0 THEN x[1] \div x[2]
             ELSE -((-x[1] + x[2] - 1) \div x[2])
\* Math.ceil of a / b for a >= 0, b > 0
CeilDiv(a, b) == (a + b - 1) \div b

\* -------------------------------------------------------------- ECGViewport
SECONDS_WIDTH == 150
CHANNEL_SPACING == 5

RECURSIVE MinOf(_, _)
RECURSIVE MaxOf(_, _)
\* computeMinMax: both start from 0
MinOf(data, m) ==
  IF data = <<>> THEN m
  ELSE MinOf(Tail(data), IF Head(data) < m THEN Head(data) ELSE m)
MaxOf(data, m) ==
  IF data = <<>> THEN m
  ELSE MaxOf(Tail(data), IF Head(data) > m THEN Head(data) ELSE m)
ComputeMinMax(data) == [min |-> MinOf(data, 0), max |-> MaxOf(data, 0)]

\* what the metadata provider gives for an image id: two channels of ranges
\* [0, 900] and [-900, 0]; and three channels of ranges [0, 900],
\* [-900, 900] and no samples
EcgModules ==
  {[numberOfSamples |-> 4, samplingFrequency |-> 20,
    channelArrays |-> <<<<0, 900, 450, 0>>, <<0, -900, -450, 0>>>>],
   [numberOfSamples |-> 4, samplingFrequency |-> 20,
    channelArrays |-> <<<<0, 900, 450, 0>>, <<-900, 900, 0, 0>>, <<>>>>]}

\* offsetWidth and offsetHeight of the canvas of the waveform viewport
EcgCanvasSizes == {<<300, 200>>, <<200, 200>>}

\* the canvas after fillRect with the background colour: no line on it
NoGrid ==
  [drawn |-> FALSE, hGridUnit |-> 0, iterations |-> 0,
   minorH |-> QInt(0), majorH |-> QInt(0),
   minorStrokeH |-> <<>>, minorStrokeV |-> <<>>,
   majorStrokeH |-> <<>>, majorStrokeV |-> <<>>]

\* the fields of an ECGViewport after its constructor
NewEcgViewport ==
  [imageId |-> 0, channels |-> <<>>, loaded |-> FALSE, numberOfSamples |-> 0,
   ecgWidth |-> 0, ecgHeight |-> QInt(0), channelScale |-> QInt(0),
   panWorld |-> <<QInt(0), QInt(0)>>, parallelScale |-> QInt(1),
   offset |-> <<300, 200>>, grid |-> NoGrid,
   lastCall |-> "new", arg |-> 0, rendered |-> FALSE,
   savedScale |-> QInt(0), savedHeight |-> QInt(0)]

\* channels.filter((c) => c.visible && c.data.length > 0)
VisibleChannels(channels) ==
  SelectSeq(channels, LAMBDA c : c.visible /\ c.hasData)

RECURSIVE MaxRangeFrom(_, _)
MaxRangeFrom(channels, m) ==
  IF channels = <<>> THEN m
  ELSE MaxRangeFrom(Tail(channels),
                    Max2(m, Head(channels).max - Head(channels).min))

\* a mutant of MaxRange: the hidden channels count too
MaxRangeOfAll(channels) == MaxRangeFrom(channels, 1)

\* computeChannelScale: the largest range among the visible channels, from 1
MaxRange(channels) == MaxRangeFrom(VisibleChannels(channels), 1)

\* computeChannelScale
ComputeChannelScale(e) ==
  LET n == Len(VisibleChannels(e.channels))
      canvasAspect == IF e.offset[2] # 0 /\ e.offset[1] # 0
                      THEN Q(e.offset[2], e.offset[1]) ELSE Q(2, 3)
      targetTotalHeight == QMul(QInt(e.ecgWidth), canvasAspect)
      totalSpacing == QInt(CHANNEL_SPACING * n)
      heightPerChannel == QDiv(QSub(targetTotalHeight, totalSpacing), QInt(n))
  IN IF n = 0 \/ e.ecgWidth = 0 THEN QInt(0)
     ELSE QDiv(heightPerChannel, QMul(QInt(MaxRange(e.channels)), Q(5, 4)))

\* itemHeight of a channel: (max - min) * scale * 1.25
ItemHeight(c, scale) == QMul(QMul(QInt(c.max - c.min), scale), Q(5, 4))

RECURSIVE TotalHeight(_, _)
\* recalculateHeight: itemHeight + CHANNEL_SPACING of every visible channel
TotalHeight(channels, scale) ==
  IF channels = <<>> THEN QInt(0)
  ELSE QAdd(QAdd(ItemHeight(Head(channels), scale), QInt(CHANNEL_SPACING)),
            TotalHeight(Tail(channels), scale))

RecalculateHeight(e) == TotalHeight(VisibleChannels(e.channels), e.channelScale)

\* refreshRenderValues: the camera that fits the content into the canvas
RefreshRenderValues(e) ==
  IF e.ecgWidth = 0 \/ e.ecgHeight[1] = 0 THEN e
  ELSE LET byWidth == Q(e.offset[1], e.ecgWidth)
           ratio == IF QLess(QInt(e.offset[2]), QMul(e.ecgHeight, byWidth))
                    THEN QDiv(QInt(e.offset[2]), e.ecgHeight) ELSE byWidth
           drawWidth == QFloor(QMul(QInt(e.ecgWidth), ratio))
           drawHeight == QFloor(QMul(e.ecgHeight, ratio))
           xOffsetCanvas == Q(e.offset[1] - drawWidth, 2)
           yOffsetCanvas == Q(e.offset[2] - drawHeight, 2)
       IN [e EXCEPT !.panWorld = <<QDiv(xOffsetCanvas, ratio),
                                   QDiv(yOffsetCanvas, ratio)>>,
                    !.parallelScale = ratio]

\* computeChannelScale(); recalculateHeight(); refreshRenderValues()
Relayout(e) ==
  LET e1 == [e EXCEPT !.channelScale = ComputeChannelScale(e)]
      e2 == [e1 EXCEPT !.ecgHeight = RecalculateHeight(e1)]
  IN RefreshRenderValues(e2)

\* drawGrid: the least distance between two minor horizontal lines
MIN_LINE_SPACING == 8

RECURSIVE GridUnitLoopPastEqual(_, _, _)
\* a mutant of GridUnitLoop: the unit is doubled also when unit * scale is
\* the minimum spacing
GridUnitLoopPastEqual(unit, scale, n) ==
  IF QLeq(QMul(QInt(unit), scale), QInt(MIN_LINE_SPACING))
  THEN GridUnitLoopPastEqual(unit * 2, scale, n + 1)
  ELSE [unit |-> unit, iterations |-> n]

RECURSIVE GridUnitLoop(_, _, _)
\* drawGrid: while (hGridUnit * scale < MIN_LINE_SPACING) hGridUnit *= 2;
\* n counts the passes through the body
GridUnitLoop(unit, scale, n) ==
  IF QLess(QMul(QInt(unit), scale), QInt(MIN_LINE_SPACING))
  THEN GridUnitLoop(unit * 2, scale, n + 1)
  ELSE [unit |-> unit, iterations |-> n]

\* a mutant of InMinorStroke: the minor stroke takes every line
InMinorStrokeAlways(h) == TRUE

\* drawGrid: if (h % 5 !== 0) in the loops of the minor stroke
InMinorStroke(h) == h % 5 # 0

\* the loops of the minor stroke: the positions h * spacing for h = 1..count
\* that are not a fifth line, in the order drawn
MinorStroke(count, spacing) ==
  LET hs == SelectSeq([h \in 1..count |-> h], InMinorStroke)
  IN [i \in 1..Len(hs) |-> QMul(QInt(hs[i]), spacing)]

\* the loops of the major stroke: the positions h * spacing for h = 1..count
MajorStroke(count, spacing) ==
  [h \in 1..count |-> QMul(QInt(h), spacing)]

\* drawGrid: the lines of the two strokes on the two axes
DrawGrid(e) ==
  LET scale == e.channelScale
      pxWidth == QInt(e.ecgWidth)
      pxHeight == e.ecgHeight
      loop == GridUnitLoop(100, scale, 0)
      minorH == QMul(QInt(loop.unit), scale)
      majorH == QMul(minorH, QInt(5))
      minorV == Q(SECONDS_WIDTH, 25)
      majorV == Q(SECONDS_WIDTH, 5)
  IN IF QLeq(scale, QInt(0)) THEN NoGrid
     ELSE [drawn |-> TRUE, hGridUnit |-> loop.unit,
           iterations |-> loop.iterations,
           minorH |-> minorH, majorH |-> majorH,
           minorStrokeH |-> MinorStroke(QFloor(QDiv(pxHeight, minorH)), minorH),
           minorStrokeV |-> MinorStroke(QFloor(QDiv(pxWidth, minorV)), minorV),
           majorStrokeH |-> MajorStroke(QFloor(QDiv(pxHeight, majorH)), majorH),
           majorStrokeV |-> MajorStroke(QFloor(QDiv(pxWidth, majorV)), majorV)]

\* renderFrame: nothing without waveform data; else the background is
\* filled and the grid drawn
RenderFrame(e) == IF e.loaded THEN [e EXCEPT !.grid = DrawGrid(e)] ELSE e

RECURSIVE LayoutsFrom(_, _, _)
\* computeChannelLayouts: one band per visible channel with samples, top down
LayoutsFrom(channels, scale, yOffset) ==
  IF channels = <<>> THEN <<>>
  ELSE LET c == Head(channels)
           below == QAdd(yOffset,
                         QAdd(ItemHeight(c, scale), QInt(CHANNEL_SPACING)))
       IN IF ~c.visible \/ ~c.hasData
          THEN LayoutsFrom(Tail(channels), scale, yOffset)
          ELSE <<[channel |-> c, itemHeight |-> ItemHeight(c, scale),
                  yOffset |-> below,
                  baseline |-> QAdd(below, QMul(QInt(c.min), scale))]>>
               \o LayoutsFrom(Tail(channels), scale, below)

ComputeChannelLayouts(e) == LayoutsFrom(e.channels, e.channelScale, QInt(0))

\* canvasToWorld: the first band whose lower edge is at or below y, else the
\* last band (0-based)
BandAt(layouts, y) ==
  IF \E i \in 1..Len(layouts) : QLeq(y, layouts[i].yOffset)
  THEN (CHOOSE i \in 1..Len(layouts) :
          /\ QLeq(y, layouts[i].yOffset)
          /\ \A j \in 1..(i - 1) : ~QLeq(y, layouts[j].yOffset)) - 1
  ELSE Len(layouts) - 1

\* worldToCanvas of [x, y, z] with integer components; z is 0-based
WorldToCanvas(e, worldPos) ==
  LET scale == e.parallelScale
      pan == e.panWorld
      layouts == ComputeChannelLayouts(e)
      z == worldPos[3]
  IN IF ~e.loaded THEN <<QInt(0), QInt(0)>>
     ELSE IF z < 0 \/ z >= Len(layouts) THEN <<QInt(0), QInt(0)>>
     ELSE LET layout == layouts[z + 1]
          IN <<QAdd(QMul(QMul(Q(worldPos[1], e.numberOfSamples),
                              QInt(e.ecgWidth)), scale),
                    QMul(pan[1], scale)),
               QAdd(QMul(QSub(layout.baseline,
                              QMul(QInt(worldPos[2]), e.channelScale)), scale),
                    QMul(pan[2], scale))>>

\* canvasToWorld: with no band layouts[z] is undefined and layout.baseline
\* raises a TypeError
CanvasToWorldRaises(e) == e.loaded /\ ComputeChannelLayouts(e) = <<>>

\* getCamera: canvasCenterWorld = this.canvasToWorld(canvasCenter) is not
\* guarded
GetCameraRaises(e) == CanvasToWorldRaises(e)

\* canvasToWorld of a canvas point; "TypeError" when there is no band
CanvasToWorld(e, canvasPos) ==
  LET scale == e.parallelScale
      pan == e.panWorld
      layouts == ComputeChannelLayouts(e)
      subX == QSub(QDiv(canvasPos[1], scale), pan[1])
      subY == QSub(QDiv(canvasPos[2], scale), pan[2])
      z == BandAt(layouts, subY)
      raw == QDiv(QMul(subX, QInt(e.numberOfSamples)), QInt(e.ecgWidth))
      last == QInt(e.numberOfSamples - 1)
      capped == IF QLess(last, raw) THEN last ELSE raw
      x == IF QLess(capped, QInt(0)) THEN QInt(0) ELSE capped
  IN IF ~e.loaded THEN <<QInt(0), QInt(0), QInt(0)>>
     ELSE IF CanvasToWorldRaises(e) THEN "TypeError"
     ELSE <<x, QDiv(QSub(layouts[z + 1].baseline, subY), e.channelScale),
            QInt(z)>>

\* --------------------------------------------------------------- ECGHelpers
\* the values a key of the WaveformData element can have: no such key, null,
\* the empty string, and one usable value for each key
SourceKeys == <<"Value", "InlineBinary", "retrieveBulkData", "BulkDataURI">>
WaveformDatas ==
  [Value : {"absent", "null", "arrays"},
   InlineBinary : {"absent", "", "base64"},
   retrieveBulkData : {"absent", "function", "string"},
   BulkDataURI : {"absent", "url"}]

\* the channel arrays that a decoded Value holds
ValueArrays == <<<<7, -7>>>>

\* the bytes that the InlineBinary string encodes, and that the bulk data
\* function and the fetch of the BulkDataURI deliver
ByteBuffers ==
  {<<>>, <<1, 2, 3>>, <<1, 0, 255, 255>>, <<0, 128, 255, 127, 1, 0>>,
   <<52, 18, 0, 128, 255, 255, 1, 0>>, <<1, 0, 2, 0, 3, 0, 4, 0, 5>>}

\* what a JavaScript condition takes for true
Truthy(v) == v \notin {"absent", "null", ""}

\* the value an Int16Array element takes when v is stored in it
ToInt16(v) == ((v + 32768) % 65536) - 32768

\* data[i] of a Uint8Array, 0-based; undefined behaves as 0 under << , & and |
ByteAt(data, i) == IF i < Len(data) THEN data[i + 1] ELSE 0

\* a mutant of SampleAt: the sign bit is not looked at
SampleAtUnsigned(data, sample) ==
  ByteAt(data, sample + 1) * 256 + ByteAt(data, sample)

\* convertBuffer: the value stored for the two bytes at sample
SampleAt(data, sample) ==
  LET highByte == ByteAt(data, sample + 1)
      lowByte == ByteAt(data, sample)
      word == highByte * 256 + lowByte
  IN ToInt16(IF highByte >= 128 THEN word - 65536 ELSE word)

RECURSIVE FillChannel(_, _, _, _, _, _)
\* convertBuffer: the inner loop over the samples of one channel
FillChannel(data, sample, length, step, buffer, sampleI) ==
  IF sample >= length THEN buffer
  ELSE FillChannel(data, sample + step, length, step,
                   IF sampleI < Len(buffer)
                   THEN [buffer EXCEPT ![sampleI + 1] = SampleAt(data, sample)]
                   ELSE buffer,
                   sampleI + 1)

\* convertBuffer
ConvertBuffer(data, numberOfChannels, numberOfSamples, bits, type) ==
  IF bits = 16 /\ type = "SS"
  THEN LET totalBytes == 2 * numberOfChannels * numberOfSamples
           length == IF Len(data) < totalBytes THEN Len(data) ELSE totalBytes
       IN [channel \in 1..numberOfChannels |->
            FillChannel(data, 2 * (channel - 1), length, 2 * numberOfChannels,
                        [i \in 1..numberOfSamples |-> 0], 0)]
  ELSE <<>>

Resolved(source, data) ==
  [kind |-> "resolved", source |-> source, error |-> "", data |-> data]
Rejected(source, error) ==
  [kind |-> "rejected", source |-> source, error |-> error, data |-> <<>>]

\* a mutant of RetrieveBulkData: the BulkDataURI is looked at first
RetrieveBulkDataUriFirst(m, ok) ==
  IF Truthy(m.waveformData.BulkDataURI)
  THEN Resolved("BulkDataURI", ConvertBuffer(m.bytes, m.numberOfChannels,
                  m.numberOfSamples, m.bits, m.type))
  ELSE IF Truthy(m.waveformData.Value) THEN Resolved("Value", ValueArrays)
  ELSE Rejected("", "[ECGHelpers] No data source found in WaveformData")

\* the closure of makeRetrieveBulkData, called on the module m; ok tells if
\* the bulk data function or the fetch delivers
RetrieveBulkData(m, ok) ==
  LET converted == ConvertBuffer(m.bytes, m.numberOfChannels,
                                 m.numberOfSamples, m.bits, m.type)
  IN IF Truthy(m.waveformData.Value) THEN Resolved("Value", ValueArrays)
     ELSE IF Truthy(m.waveformData.InlineBinary)
          THEN Resolved("InlineBinary", converted)
     ELSE IF m.waveformData.retrieveBulkData = "function"
          THEN IF ok THEN Resolved("retrieveBulkData", converted)
               ELSE Rejected("retrieveBulkData", "bulk data")
     ELSE IF Truthy(m.waveformData.BulkDataURI)
          THEN IF ok THEN Resolved("BulkDataURI", converted)
               ELSE Rejected("BulkDataURI", "fetch")
     ELSE Rejected("", "[ECGHelpers] No data source found in WaveformData")

NoResult == [kind |-> "none", source |-> "", error |-> "", data |-> <<>>]
NoModule ==
  [waveformData |-> [Value |-> "absent", InlineBinary |-> "absent",
                     retrieveBulkData |-> "absent", BulkDataURI |-> "absent"],
   bytes |-> <<>>, numberOfChannels |-> 0, numberOfSamples |-> 0,
   bits |-> 0, type |-> ""]

\* the metadata objects given to getECGModule: the WaveformSequence is
\* absent, empty or has one item; bitsTag 0 and typeTag "absent" stand for a
\* missing tag
Metadatas ==
  [sequence : {"absent", "empty", "item"}, waveformData : WaveformDatas,
   bytes : ByteBuffers, numberOfChannels : 1..MaxChannels,
   numberOfSamples : 0..MaxSamples, bitsTag : {0, 8, 16},
   typeTag : {"absent", "SS", "US"}]

\* nothing was asked of ECGHelpers yet
NewLoader ==
  [metadata |-> [sequence |-> "absent", waveformData |-> NoModule.waveformData,
                 bytes |-> <<>>, numberOfChannels |-> 1, numberOfSamples |-> 0,
                 bitsTag |-> 0, typeTag |-> "absent"],
   module |-> "none", m |-> NoModule, result |-> NoResult, lastCall |-> "new"]

\* ------------------------------------------------- getTextBoxCoordsCanvas
TEXT_BOX_GAP == 6

\* the handles of an annotation, as canvas points
AnnotationPoints ==
  {<<<<100, 100>>, <<120, 120>>>>, <<<<100, 350>>, <<120, 390>>>>,
   <<<<100, 60>>, <<120, 80>>>>, <<<<120, 200>>>>}

\* the text lines of a box, each given by its length
TextLines == {<<10>>, <<10, 4>>}

\* the element argument: whether it is given, its clientWidth and
\* clientHeight, and whether it has an svg layer
Elements ==
  {[present |-> TRUE, clientWidth |-> 500, clientHeight |-> 400,
    svgLayer |-> TRUE],
   [present |-> TRUE, clientWidth |-> 500, clientHeight |-> 150,
    svgLayer |-> TRUE],
   [present |-> TRUE, clientWidth |-> 500, clientHeight |-> 400,
    svgLayer |-> FALSE],
   [present |-> FALSE, clientWidth |-> 0, clientHeight |-> 0,
    svgLayer |-> FALSE]}

\* the rectangles of text boxes drawn earlier in the frame
TextBoxRects ==
  {[x |-> 120, y |-> 70, width |-> 130, height |-> 67],
   [x |-> 120, y |-> 143, width |-> 130, height |-> 67],
   [x |-> 120, y |-> 330, width |-> 130, height |-> 67],
   [x |-> 120, y |-> 30, width |-> 130, height |-> 67],
   [x |-> 120, y |-> 200, width |-> 130, height |-> 84],
   [x |-> 300, y |-> 70, width |-> 130, height |-> 67]}

\* _toTextBoxAABB of a rectangle whose y is a fraction
ToTextBoxAABB(x, y, width, height, inflate) ==
  [minX |-> x - inflate, minY |-> QSub(y, QInt(inflate)),
   maxX |-> x + width + inflate,
   maxY |-> QAdd(QAdd(y, QInt(height)), QInt(inflate))]

\* math/aabb/intersectAABB
IntersectAABB(a, b) ==
  /\ a.minX <= b.maxX
  /\ a.maxX >= b.minX
  /\ QLeq(a.minY, b.maxY)
  /\ QLeq(b.minY, a.maxY)

\* the test of _overlapsAny and _findFirstOverlap for one registered box
OverlapsBox(x, y, w, h, box) ==
  IntersectAABB(ToTextBoxAABB(x, y, w, h, 0),
                ToTextBoxAABB(box.x, QInt(box.y), box.width, box.height,
                              TEXT_BOX_GAP \div 2))

\* _overlapsAny
OverlapsAny(x, y, w, h, boxes) ==
  \E i \in 1..Len(boxes) : OverlapsBox(x, y, w, h, boxes[i])

\* _findFirstOverlap: the index of the first box that overlaps, 0 if none
FindFirstOverlap(x, y, w, h, boxes) ==
  IF OverlapsAny(x, y, w, h, boxes)
  THEN CHOOSE i \in 1..Len(boxes) :
         /\ OverlapsBox(x, y, w, h, boxes[i])
         /\ \A j \in 1..(i - 1) : ~OverlapsBox(x, y, w, h, boxes[j])
  ELSE 0

\* Math.max(lo, Math.min(v, hi)) on fractions
QClamp(lo, v, hi) ==
  LET m == IF QLess(hi, v) THEN hi ELSE v
  IN IF QLess(m, lo) THEN lo ELSE m

RECURSIVE ScanDown(_, _, _, _, _, _, _)
\* _resolveOverlap, the downward loop from iteration i on: the candidate,
\* whether it became Infinity, and the iterations run
ScanDown(x, candidateY, w, h, boxes, maxY, i) ==
  IF i >= 30 THEN [y |-> candidateY, inf |-> FALSE, steps |-> i]
  ELSE LET b == FindFirstOverlap(x, candidateY, w, h, boxes)
           next == QInt(boxes[b].y + boxes[b].height + TEXT_BOX_GAP)
       IN IF b = 0 THEN [y |-> candidateY, inf |-> FALSE, steps |-> i + 1]
          ELSE IF QLess(QInt(maxY), QAdd(next, QInt(h)))
               THEN [y |-> next, inf |-> TRUE, steps |-> i + 1]
               ELSE ScanDown(x, next, w, h, boxes, maxY, i + 1)

RECURSIVE ScanUp(_, _, _, _, _, _, _)
\* _resolveOverlap, the upward loop from iteration i on
ScanUp(x, candidateY, w, h, boxes, margin, i) ==
  IF i >= 30 THEN [y |-> candidateY, inf |-> FALSE, steps |-> i]
  ELSE LET b == FindFirstOverlap(x, candidateY, w, h, boxes)
           next == QInt(boxes[b].y - h - TEXT_BOX_GAP)
       IN IF b = 0 THEN [y |-> candidateY, inf |-> FALSE, steps |-> i + 1]
          ELSE IF QLess(next, QInt(margin))
               THEN [y |-> next, inf |-> TRUE, steps |-> i + 1]
               ELSE ScanUp(x, next, w, h, boxes, margin, i + 1)

\* a mutant of ResolveOverlap: the upward scan is tried first
ResolveOverlapUpFirst(x, y, w, h, boxes, margin, maxX, maxY) ==
  LET up == ScanUp(x, y, w, h, boxes, margin, 0)
      down == ScanDown(x, y, w, h, boxes, maxY, 0)
  IN IF ~OverlapsAny(x, y, w, h, boxes)
     THEN [x |-> x, y |-> y, steps |-> 0]
     ELSE IF ~up.inf /\ ~OverlapsAny(x, up.y, w, h, boxes)
     THEN [x |-> x, y |-> QClamp(QInt(margin), up.y, QInt(maxY - h)),
           steps |-> up.steps]
     ELSE IF ~down.inf /\ ~OverlapsAny(x, down.y, w, h, boxes)
     THEN [x |-> x, y |-> QClamp(QInt(margin), down.y, QInt(maxY - h)),
           steps |-> up.steps + down.steps]
     ELSE [x |-> x, y |-> y, steps |-> up.steps + down.steps]

\* _resolveOverlap: the position and the iterations of the two loops
ResolveOverlap(x, y, w, h, boxes, margin, maxX, maxY) ==
  LET down == ScanDown(x, y, w, h, boxes, maxY, 0)
      up == ScanUp(x, y, w, h, boxes, margin, 0)
  IN IF ~OverlapsAny(x, y, w, h, boxes)
     THEN [x |-> x, y |-> y, steps |-> 0]
     ELSE IF ~down.inf /\ ~OverlapsAny(x, down.y, w, h, boxes)
     THEN [x |-> x, y |-> QClamp(QInt(margin), down.y, QInt(maxY - h)),
           steps |-> down.steps]
     ELSE IF ~up.inf /\ ~OverlapsAny(x, up.y, w, h, boxes)
     THEN [x |-> x, y |-> QClamp(QInt(margin), up.y, QInt(maxY - h)),
           steps |-> down.steps + up.steps]
     ELSE [x |-> x, y |-> y, steps |-> down.steps + up.steps]

\* _determineCorners: the x of the left and right handle, the y of the top
\* and bottom handle
DetermineCorners(points) ==
  IF Len(points) < 2
  THEN [left |-> points[1][1], right |-> points[1][1],
        top |-> points[1][2], bottom |-> points[1][2]]
  ELSE [left |-> IF points[1][1] < points[2][1] THEN points[1][1]
                 ELSE points[2][1],
        right |-> IF points[1][1] < points[2][1] THEN points[2][1]
                  ELSE points[1][1],
        top |-> IF points[1][2] < points[2][2] THEN points[1][2]
                ELSE points[2][2],
        bottom |-> IF points[1][2] < points[2][2] THEN points[2][2]
                   ELSE points[1][2]]

\* _estimateTextBoxSize
EstimateTextBoxSize(textLines) ==
  LET longest == MaxOf(textLines, 0)
      lineCount == Max2(Len(textLines), 1)
  IN [width |-> longest * 8 + 25 * 2, height |-> lineCount * 17 + 25 * 2]

\* the position before the overlap is looked at: to the right of the
\* annotation, or to its left, and inside the margins of the element
PlacedInElement(points, element, textLines) ==
  LET corners == DetermineCorners(points)
      centerY == Q(corners.top + corners.bottom, 2)
      size == EstimateTextBoxSize(textLines)
      margin == 4
      maxX == element.clientWidth - margin
      maxY == element.clientHeight - margin
      x0 == IF corners.right + size.width > maxX
            THEN corners.left - size.width ELSE corners.right
      x == Max2(margin, IF x0 < maxX - size.width THEN x0
                        ELSE maxX - size.width)
      y == QClamp(QInt(margin), QSub(centerY, Q(size.height, 2)),
                  QInt(maxY - size.height))
  IN [x |-> x, y |-> y, width |-> size.width, height |-> size.height,
      margin |-> margin, maxX |-> maxX, maxY |-> maxY]

\* getTextBoxCoordsCanvas of the handles of an annotation
GetTextBoxCoordsCanvas(points, element, textLines, boxes) ==
  LET p == PlacedInElement(points, element, textLines)
      corners == DetermineCorners(points)
  IN IF ~element.present
     THEN [x |-> corners.right, y |-> Q(corners.top + corners.bottom, 2),
           steps |-> 0]
     ELSE IF element.svgLayer /\ Len(boxes) > 0
     THEN ResolveOverlap(p.x, p.y, p.width, p.height, boxes, p.margin,
                         p.maxX, p.maxY)
     ELSE [x |-> p.x, y |-> p.y, steps |-> 0]

\* the registry of the svg layer is empty and nothing was placed
NewTool ==
  [boxes |-> <<>>, lastCall |-> "new",
   placed |-> PlacedInElement(<<<<120, 200>>>>,
                [present |-> TRUE, clientWidth |-> 500,
                 clientHeight |-> 400, svgLayer |-> TRUE], <<10>>),
   svgLayer |-> TRUE,
   result |-> [x |-> 0, y |-> QInt(0), steps |-> 0]]

\* ------------------------------------------------ OrientationControllerTool
ToolViewportIds == 1..NumToolViewports

\* the tool after its constructor: no listener, no viewport in the tool
\* group, no timer, and empty maps resizeObservers and cameraHandlers.
\* observers[id] and handlers[id] count the ResizeObservers that observe the
\* element of the viewport and the CAMERA_MODIFIED listeners on it
NewOrientationTool ==
  [listening |-> FALSE, inGroup |-> {}, elements |-> {}, actors |-> {},
   timers |-> [id \in ToolViewportIds |-> 0],
   retries |-> [id \in ToolViewportIds |-> 0],
   observers |-> [id \in ToolViewportIds |-> 0], resizeObservers |-> {},
   handlers |-> [id \in ToolViewportIds |-> 0], cameraHandlers |-> {},
   renderRequested |-> {}]

\* removeMarkers: for the viewports of the tool group the actors and the
\* camera handler go when the element is enabled, and the observer of the
\* map is disconnected; then widget.cleanup(), every observer left in the
\* map is disconnected and both maps are cleared
RemoveMarkers(o) ==
  LET unlistened == o.inGroup \cap o.elements \cap o.cameraHandlers
  IN [o EXCEPT
        !.actors = {},
        !.handlers = [id \in ToolViewportIds |->
                        IF id \in unlistened THEN o.handlers[id] - 1
                        ELSE o.handlers[id]],
        !.cameraHandlers = {},
        !.observers = [id \in ToolViewportIds |->
                         IF id \in o.resizeObservers THEN o.observers[id] - 1
                         ELSE o.observers[id]],
        !.resizeObservers = {}]

\* addMarkers: a timer of ADD_MARKER_DELAY_MS for every viewport of the tool
\* group that has an enabled element and no actors
AddMarkers(o) ==
  [o EXCEPT !.timers =
     [id \in ToolViewportIds |->
        IF id \in o.inGroup \cap o.elements /\ id \notin o.actors
        THEN o.timers[id] + 1 ELSE o.timers[id]]]

\* onViewportAdded for a viewport of the tool group of the tool
OnViewportAdded(o, id) ==
  IF id \in o.actors THEN o
  ELSE [o EXCEPT !.timers[id] = @ + 1]

\* onViewportRemoved for a viewport of the tool group of the tool
OnViewportRemoved(o, id) ==
  LET unlisten == id \in o.elements /\ id \in o.cameraHandlers
      disconnect == id \in o.resizeObservers
  IN [o EXCEPT
        !.actors = @ \ {id},
        !.handlers[id] = IF unlisten THEN @ - 1 ELSE @,
        !.cameraHandlers = IF unlisten THEN @ \ {id} ELSE @,
        !.observers[id] = IF disconnect THEN @ - 1 ELSE @,
        !.resizeObservers = @ \ {id}]

\* addMarkerToViewport: nothing without an enabled element; else the actors
\* are added, the viewport is rendered or a retry timer is set, a new
\* ResizeObserver observes the element and a new listener is added, and
\* both take the place of what the maps held for the viewport
AddMarkerToViewport(o, id, positioned) ==
  IF id \notin o.elements THEN o
  ELSE [o EXCEPT
          !.actors = @ \cup {id},
          !.renderRequested = IF positioned THEN @ \cup {id} ELSE @,
          !.retries[id] = IF positioned THEN @ ELSE @ + 1,
          !.observers[id] = @ + 1,
          !.resizeObservers = @ \cup {id},
          !.handlers[id] = @ + 1,
          !.cameraHandlers = @ \cup {id}]

\* ------------------------------------------------------------------- Init
\* the engine after construction, with or without a GPU
InitEngine(cpu) ==
  /\ orient = NewOrientationTool
  /\ ecg = NewEcgViewport
  /\ useCPURendering = cpu
  /\ poolSize \in 1..MaxPool
  /\ viewportOrder = <<>>
  /\ vp = <<>>
  /\ canvas = [i \in Ids |-> FreshCanvas]
  /\ client = [i \in Ids |-> DefaultCanvas]
  /\ pool = [viewportToContext |-> <<>>, viewportSizes |-> <<>>,
             contextMaxSizes |-> [c \in 0..(poolSize - 1) |-> <<0, 0>>]]
  /\ container = [c \in 0..(poolSize - 1) |-> <<0, 0>>]
  /\ renderers = [c \in 0..(poolSize - 1) |-> <<>>]
  /\ widgets = <<>>
  /\ needsRender = <<>>
  /\ animationFrameSet = FALSE
  /\ frameCallbacks = 0
  /\ pc = "idle"
  /\ queue = <<>>
  /\ eventDetails = <<>>
  /\ hist = [op |-> "init", onlyStackEnables |-> TRUE,
             flaggedAtFrame |-> <<>>, rendered |-> <<>>, skipped |-> {},
             events |-> <<>>, resizeCalls |-> 0, deferred |-> FALSE,
             arg |-> 0, released |-> 0]

Init == InitEngine(FALSE) /\ loader = NewLoader /\ tool = NewTool

\* the engine where getShouldUseCPURendering() is true
InitCpu == InitEngine(TRUE) /\ loader = NewLoader /\ tool = NewTool

\* ------------------------------------------------ enabling and disabling
\* a mutant of AssignedContextIndex: counts the viewport being added
AssignedContextIndexOffByOne(type, size, n) ==
  IF type = "STACK" THEN (size + 1) % n ELSE 0

\* a mutant of AssignedContextIndex: every type is distributed
AssignedContextIndexForAll(type, size, n) == size % n

\* addVtkjsDrivenViewport: stack viewports are distributed, others use 0
AssignedContextIndex(type, size, n) ==
  IF type = "STACK" THEN size % n ELSE 0

\* offscreenMultiRenderWindow.addRenderer({viewport: [0, 0, 1, 1], id})
\* (a new vtk renderer draws unless told otherwise)
NewRenderer == [viewport |-> <<<<1, 1>>, <<1, 1>>>>, draw |-> TRUE]

\* the object handed to the viewport constructor
ViewportInput(type, c) ==
  [type |-> type, sWidth |-> c.width, sHeight |-> c.height,
   camera |-> DefaultCamera, displayArea |-> FALSE, hasWaveform |-> FALSE]

\* what an observer records of a call: the operation, that the run is no
\* longer one of stack viewports enabled one after another, and that no
\* deferred resize is the last thing that was asked
Observed(op) ==
  [hist EXCEPT !.op = op, !.onlyStackEnables = FALSE,
               !.flaggedAtFrame = <<>>, !.rendered = <<>>, !.skipped = {},
               !.events = <<>>, !.resizeCalls = 0, !.deferred = FALSE,
               !.arg = 0, !.released = 0]

\* addVtkjsDrivenViewport up to the construction of the viewport object
\* (the part that runs for every type, supported or not)
AddVtkjsBeforeConstruct(id, type, c) ==
  LET ci == AssignedContextIndex(type, Cardinality(DOMAIN vp), poolSize)
      p1 == PoolUpdateViewportSize(PoolAssign(pool, id, ci), id,
                                   c.width, c.height)
  IN /\ pool' = p1
     /\ container' = [container EXCEPT ![ci] = PoolMaxSize(p1, ci)]
     /\ renderers' = [renderers EXCEPT ![ci] = Put(@, id, NewRenderer)]

\* enableVTKjsDrivenViewport followed by addVtkjsDrivenViewport
addVtkjsDrivenViewport(id, type, size) ==
  /\ pc = "idle"
  /\ ~useCPURendering
  /\ id \notin DOMAIN vp
  \* an id that a failed enable left in the pool is not used again
  /\ id \notin DOMAIN pool.viewportToContext
  /\ type \in GpuTypes \cup UnsupportedTypes
  /\ client' = [client EXCEPT ![id] = size]
  /\ LET c == CanvasFromRect(FreshCanvas, size)
     IN /\ canvas' = [canvas EXCEPT ![id] = c]
        /\ AddVtkjsBeforeConstruct(id, type, c)
        /\ IF type \in GpuTypes
           THEN /\ vp' = Put(vp, id, ViewportInput(type, c))
                /\ viewportOrder' = Append(viewportOrder, id)
                /\ hist' = [Observed("other") EXCEPT
                     !.onlyStackEnables = hist.onlyStackEnables
                                          /\ type = "STACK"]
           ELSE \* throw new Error(`Viewport Type ${type} is not supported`)
                /\ UNCHANGED <<vp, viewportOrder>>
                /\ hist' = Observed("enableThrew")
  /\ UNCHANGED <<orient, tool, loader, ecg, useCPURendering, poolSize, widgets, needsRender, animationFrameSet,
                 frameCallbacks, pc, queue, eventDetails>>

\* BaseRenderingEngine.addCustomViewport: the viewport draws to its own
\* canvas and takes no context of the pool; without a GPU every viewport is
\* added this way
addCustomViewport(id, type, size) ==
  /\ pc = "idle"
  /\ id \notin DOMAIN vp
  /\ UsesCustomPipeline(type) \/ useCPURendering
  /\ client' = [client EXCEPT ![id] = size]
  /\ LET c == CanvasFromRect(FreshCanvas, size)
     IN /\ canvas' = [canvas EXCEPT ![id] = c]
        /\ vp' = Put(vp, id, ViewportInput(type, c))
  /\ viewportOrder' = Append(viewportOrder, id)
  /\ hist' = Observed("other")
  /\ UNCHANGED <<orient, tool, loader, ecg, useCPURendering, poolSize, pool, container, renderers, widgets,
                 needsRender, animationFrameSet, frameCallbacks, pc, queue,
                 eventDetails>>

\* BaseRenderingEngine.disableElement: the viewport leaves _viewports and
\* _needsRender
BaseDisableElement(id) ==
  /\ vp' = Drop(vp, id)
  /\ viewportOrder' = Without(viewportOrder, id)
  /\ needsRender' = Without(needsRender, id)
  /\ widgets' = Drop(widgets, id)

\* a mutant of RemoveRenderer: the renderer stays in the render window
RemoveRendererKept(rs, id) == rs

\* offscreenMultiRenderWindow.removeRenderer(viewportId)
RemoveRenderer(rs, id) == Drop(rs, id)

\* disableElement of an enabled viewport
disableElement(id) ==
  /\ pc = "idle"
  /\ id \in DOMAIN vp
  /\ BaseDisableElement(id)
  /\ IF ~UsesCustomPipeline(vp[id].type) /\ ~useCPURendering
     THEN LET ci == PoolContextOf(pool, id)
          IN /\ renderers' = IF ci # -1
                             THEN [renderers EXCEPT ![ci] =
                                     RemoveRenderer(@, id)]
                             ELSE renderers
             /\ pool' = PoolRemoveViewport(pool, id)
     ELSE UNCHANGED <<pool, renderers>>
  /\ canvas' = [canvas EXCEPT ![id] = FreshCanvas]
  /\ client' = [client EXCEPT ![id] = DefaultCanvas]
  /\ hist' = [Observed("other") EXCEPT !.released = id]
  /\ UNCHANGED <<orient, tool, loader, ecg, useCPURendering, poolSize, container, animationFrameSet,
                 frameCallbacks, pc, queue, eventDetails>>

\* disableElement of an id that has no viewport: if (!viewport) return
disableReleased(id) ==
  /\ pc = "idle"
  /\ id \notin DOMAIN vp
  /\ hist' = [Observed("disableReturned") EXCEPT
                !.arg = id, !.released = hist.released]
  /\ UNCHANGED <<orient, tool, loader, ecg, useCPURendering, poolSize, viewportOrder, vp, canvas, client,
                 pool, container, renderers, widgets, needsRender,
                 animationFrameSet, frameCallbacks, pc, queue, eventDetails>>

\* getRenderer: getContextByIndex gives nothing for an id the pool has no
\* record of, and destructuring nothing throws; nothing is changed
getRenderer(id) ==
  /\ pc \in {"idle", "destroyed"}
  /\ hist' = [Observed(IF PoolContextOf(pool, id) = -1 THEN "lookupThrew"
                       ELSE "lookupReturned") EXCEPT
                !.arg = id, !.released = hist.released]
  /\ UNCHANGED <<orient, tool, loader, ecg, useCPURendering, poolSize, viewportOrder, vp, canvas, client,
                 pool, container, renderers, widgets, needsRender,
                 animationFrameSet, frameCallbacks, pc, queue, eventDetails>>

\* destroy: contextPool.destroy() and BaseRenderingEngine.destroy() release
\* every context and every viewport; the engine takes no further call
destroy ==
  /\ pc = "idle"
  /\ pc' = "destroyed"
  /\ vp' = <<>>
  /\ viewportOrder' = <<>>
  /\ widgets' = <<>>
  /\ needsRender' = <<>>
  /\ animationFrameSet' = FALSE
  /\ frameCallbacks' = 0
  /\ pool' = [viewportToContext |-> <<>>, viewportSizes |-> <<>>,
              contextMaxSizes |-> [c \in Contexts |-> <<0, 0>>]]
  /\ container' = [c \in Contexts |-> <<0, 0>>]
  /\ renderers' = [c \in Contexts |-> <<>>]
  /\ canvas' = [i \in Ids |-> FreshCanvas]
  /\ client' = [i \in Ids |-> DefaultCanvas]
  /\ hist' = Observed("destroy")
  /\ UNCHANGED <<orient, tool, loader, ecg, useCPURendering, poolSize, queue, eventDetails>>

\* ------------------------------------------------------ the environment
\* the layout gives the on-screen canvas of an element a new displayed size
setClientSize(id, size) ==
  /\ pc = "idle"
  /\ id \in DOMAIN vp
  /\ client[id] # size
  /\ client' = [client EXCEPT ![id] = size]
  /\ hist' = Observed("other")
  /\ UNCHANGED <<orient, tool, loader, ecg, useCPURendering, poolSize, viewportOrder, vp, canvas, pool, container,
                 renderers, widgets, needsRender, animationFrameSet,
                 frameCallbacks, pc, queue, eventDetails>>

\* viewport.addWidget: the widget brings a renderer of its own
addWidget(id) ==
  /\ pc = "idle"
  /\ id \in DOMAIN vp
  /\ ~UsesCustomPipeline(vp[id].type)
  /\ id \notin DOMAIN widgets
  /\ widgets' = Put(widgets, id, [draw |-> TRUE])
  /\ hist' = Observed("other")
  /\ UNCHANGED <<orient, tool, loader, ecg, useCPURendering, poolSize, viewportOrder, vp, canvas, client, pool, container,
                 renderers, needsRender, animationFrameSet, frameCallbacks,
                 pc, queue, eventDetails>>

\* viewport.setCamera and viewport.setDisplayArea
setCamera(id, cam, fit) ==
  /\ pc = "idle"
  /\ id \in DOMAIN vp
  /\ ~UsesCustomPipeline(vp[id].type)
  /\ vp[id].camera # cam \/ vp[id].displayArea # fit
  /\ vp' = [vp EXCEPT ![id].camera = cam, ![id].displayArea = fit]
  /\ hist' = Observed("other")
  /\ UNCHANGED <<orient, tool, loader, ecg, useCPURendering, poolSize, viewportOrder, canvas, client, pool, container,
                 renderers, widgets, needsRender, animationFrameSet,
                 frameCallbacks, pc, queue, eventDetails>>

\* ECGViewport.setEcg when the data is there: the viewport has waveformData
loadWaveform(id) ==
  /\ pc = "idle"
  /\ id \in DOMAIN vp
  /\ UsesCustomPipeline(vp[id].type)
  /\ ~vp[id].hasWaveform
  /\ vp' = [vp EXCEPT ![id].hasWaveform = TRUE]
  /\ hist' = Observed("other")
  /\ UNCHANGED <<orient, tool, loader, ecg, useCPURendering, poolSize, viewportOrder, canvas, client,
                 pool, container, renderers, widgets, needsRender,
                 animationFrameSet, frameCallbacks, pc, queue, eventDetails>>

\* --------------------------------------------------------- frame scheduler
\* the event detail _copyToOnscreenCanvas returns
CopyDetail(id) ==
  [viewportId |-> id,
   fields |-> {"element", "suppressEvents", "viewportId",
               "renderingEngineId", "viewportStatus"}]

\* the detail of the event ECGViewport.renderFrame triggers
EcgDetail(id) ==
  [viewportId |-> id,
   fields |-> {"element", "viewportId", "viewport", "renderingEngineId"}]

\* a pass that returned undefined
NoDetail(id) == [viewportId |-> id, fields |-> {}]

NeedsRenderSet == SeqToSet(needsRender)

RECURSIVE AddAll(_, _)
\* ids.forEach((id) => _needsRender.add(id))
AddAll(set, ids) ==
  IF ids = <<>> THEN set
  ELSE AddAll(IF Head(ids) \in SeqToSet(set) THEN set
              ELSE Append(set, Head(ids)), Tail(ids))

\* BaseRenderingEngine._setViewportsToBeRenderedNextFrame and _render: the
\* ids join _needsRender and one frame callback is requested unless one is set
SetViewportsToBeRenderedNextFrame(ids) ==
  /\ needsRender' = AddAll(needsRender, ids)
  /\ IF AddAll(needsRender, ids) # <<>> /\ ~animationFrameSet
     THEN /\ animationFrameSet' = TRUE
          /\ frameCallbacks' = frameCallbacks + 1
     ELSE UNCHANGED <<animationFrameSet, frameCallbacks>>

Capped(n) == IF n < 2 THEN n + 1 ELSE n

\* viewport.render(): flags one viewport
renderViewport(id) ==
  /\ pc = "idle"
  /\ id \in DOMAIN vp
  /\ SetViewportsToBeRenderedNextFrame(<<id>>)
  /\ hist' = Observed("other")
  /\ UNCHANGED <<orient, tool, loader, ecg, useCPURendering, poolSize, viewportOrder, vp, canvas, client, pool, container,
                 renderers, widgets, pc, queue, eventDetails>>

\* a mutant of ViewportsToRender: the order in which the ids were flagged
ViewportsToRenderInFlagOrder ==
  SelectSeq(needsRender, LAMBDA id : id \in DOMAIN vp)

\* _renderFlaggedViewports: viewports.filter((vp) => _needsRender.has(vp.id))
ViewportsToRender ==
  SelectSeq(viewportOrder, LAMBDA id : id \in NeedsRenderSet)

\* _renderFlaggedViewports, from the frame callback to the first viewport
frameStart ==
  /\ pc = "idle"
  /\ frameCallbacks > 0
  /\ frameCallbacks' = frameCallbacks - 1
  /\ IF ViewportsToRender = <<>>
     THEN /\ animationFrameSet' = FALSE
          /\ UNCHANGED <<pc, queue>>
     ELSE /\ pc' = "render"
          /\ queue' = ViewportsToRender
          /\ UNCHANGED animationFrameSet
  /\ eventDetails' = <<>>
  /\ hist' = [Observed("frameStart") EXCEPT
                !.flaggedAtFrame = needsRender,
                !.resizeCalls = IF ViewportsToRender = <<>> THEN 0
                                ELSE hist.resizeCalls,
                !.deferred = hist.deferred /\ ViewportsToRender # <<>>]
  /\ UNCHANGED <<orient, tool, loader, ecg, useCPURendering, poolSize, viewportOrder, vp, canvas, client, pool, container,
                 renderers, widgets, needsRender>>

\* the map callback after renderViewportUsingCustomOrVtkPipeline returned
\* detail: viewport.setRendered(), _needsRender.delete(viewport.id)
AfterRendered(id, detail) ==
  /\ needsRender' = Without(needsRender, id)
  /\ eventDetails' = Append(eventDetails, detail)
  /\ queue' = Tail(queue)

\* _renderViewportWithContext: the two early returns
PassIsSkipped(id) ==
  \/ client[id][1] = 0
  \/ client[id][2] = 0
  \/ vp[id].sWidth < VIEWPORT_MIN_SIZE
  \/ vp[id].sHeight < VIEWPORT_MIN_SIZE

\* _resizeOffScreenCanvasForViewport: the pool learns the size of the
\* viewport, the container follows the maximum when that changed
ResizeOffScreenCanvasForViewport(id) ==
  LET ci == PoolContextOf(pool, id)
      w == vp[id].sWidth
      h == vp[id].sHeight
      p1 == PoolUpdateViewportSize(pool, id, w, h)
  IN /\ pool' = p1
     /\ container' = IF PoolMaxSizeChanged(pool, id, w, h)
                     THEN [container EXCEPT ![ci] = PoolMaxSize(p1, ci)]
                     ELSE container

\* a mutant of DrawFlags: every renderer of the context draws
DrawFlagsAll(rs, id) == [x \in DOMAIN rs |-> [rs[x] EXCEPT !.draw = TRUE]]

\* allRenderers.forEach(({renderer: r, id}) => r.setDraw(id === viewport.id))
DrawFlags(rs, id) == [x \in DOMAIN rs |-> [rs[x] EXCEPT !.draw = (x = id)]]

\* widgetRenderers.forEach((viewportId, renderer) =>
\*   renderer.setDraw(viewportId === viewport.id))
WidgetDrawFlags(ws, id) == [x \in DOMAIN ws |-> [draw |-> (x = id)]]

\* a mutant of ViewportRect: the height is taken against the maximum width
ViewportRectOneAxis(w, h, maxSize) ==
  <<MinOneRatio(w, maxSize[1]), MinOneRatio(h, maxSize[1])>>

\* xEnd and yEnd of renderer.setViewport(0, 0, xEnd, yEnd): the size of the
\* viewport over the maximum of its context, at most 1
ViewportRect(w, h, maxSize) ==
  <<MinOneRatio(w, maxSize[1]), MinOneRatio(h, maxSize[2])>>

\* renderViewportUsingCustomOrVtkPipeline for the next viewport of the frame,
\* up to renderWindow.render()
renderNext ==
  /\ pc = "render"
  /\ queue # <<>>
  /\ LET id == Head(queue) IN
     IF UsesCustomPipeline(vp[id].type)
     THEN \* customRenderViewportToCanvas() returns no detail; renderFrame
          \* draws and triggers its own event when there is waveformData
          /\ AfterRendered(id, NoDetail(id))
          /\ hist' = IF vp[id].hasWaveform
                     THEN [hist EXCEPT !.op = "customRender",
                                       !.rendered = Append(@, id),
                                       !.events = Append(@, EcgDetail(id))]
                     ELSE [hist EXCEPT !.op = "customRender",
                                       !.skipped = @ \cup {id}]
          /\ UNCHANGED <<pc, pool, container, renderers, widgets>>
     ELSE IF useCPURendering
     THEN \* throw new Error('GPU not available, ...'): the frame callback
          \* ends here, before setRendered, _needsRender.delete, the reset
          \* of _animationFrameSet and the events
          /\ pc' = "idle"
          /\ queue' = <<>>
          /\ eventDetails' = <<>>
          /\ hist' = [hist EXCEPT !.op = "renderThrew"]
          /\ UNCHANGED <<needsRender, pool, container, renderers, widgets>>
     ELSE IF PassIsSkipped(id)
     THEN /\ AfterRendered(id, NoDetail(id))
          /\ hist' = [hist EXCEPT !.op = "skip", !.skipped = @ \cup {id}]
          /\ UNCHANGED <<pc, pool, container, renderers, widgets>>
     ELSE LET ci == PoolContextOf(pool, id)
              rs == IF id \in DOMAIN renderers[ci] THEN renderers[ci]
                    ELSE Put(renderers[ci], id, NewRenderer)
              p1 == PoolUpdateViewportSize(pool, id, vp[id].sWidth,
                                           vp[id].sHeight)
              rect == ViewportRect(vp[id].sWidth, vp[id].sHeight,
                                   PoolMaxSize(p1, ci))
          IN /\ ResizeOffScreenCanvasForViewport(id)
             /\ renderers' = [renderers EXCEPT ![ci] =
                  DrawFlags([rs EXCEPT ![id].viewport = rect], id)]
             /\ widgets' = WidgetDrawFlags(widgets, id)
             /\ pc' = "draw"
             /\ hist' = [hist EXCEPT !.op = "draw",
                                     !.rendered = Append(@, id)]
             /\ UNCHANGED <<needsRender, eventDetails, queue>>
  /\ UNCHANGED <<orient, tool, loader, ecg, useCPURendering, poolSize, viewportOrder, vp, canvas, client,
                 animationFrameSet, frameCallbacks>>

\* _copyToOnscreenCanvas: the on-screen canvas takes the rendered size
CopyToOnscreenCanvas(id) ==
  canvas' = [canvas EXCEPT ![id] =
               CanvasFromExtent(@, vp[id].sWidth, vp[id].sHeight)]

\* a mutant of ResetDrawFlags: the flags of the pass are left as they are
ResetDrawFlagsKept(rs) == rs

\* allRenderers.forEach(({renderer: r}) => r.setDraw(false)), and the same
\* for the widget renderers
ResetDrawFlags(rs) == [x \in DOMAIN rs |-> [rs[x] EXCEPT !.draw = FALSE]]

\* _renderViewportWithContext after renderWindow.render() returned
drawDone ==
  /\ pc = "draw"
  /\ LET id == Head(queue)
         ci == PoolContextOf(pool, id)
     IN /\ renderers' = [renderers EXCEPT ![ci] = ResetDrawFlags(@)]
        /\ widgets' = ResetDrawFlags(widgets)
        /\ CopyToOnscreenCanvas(id)
        /\ AfterRendered(id, CopyDetail(id))
  /\ pc' = "render"
  /\ hist' = [hist EXCEPT !.op = "copy"]
  /\ UNCHANGED <<orient, tool, loader, ecg, useCPURendering, poolSize, viewportOrder, vp, client, pool, container,
                 animationFrameSet, frameCallbacks>>

\* a mutant of EventsTriggered: an event for every detail
EventsTriggeredForAll(details) == details

\* eventDetails.forEach: an event for every detail that has an element
EventsTriggered(details) ==
  SelectSeq(details, LAMBDA d : "element" \in d.fields)

\* a mutant of FrameFlagAfterRender: the flag is left set
FrameFlagLeftSet == TRUE

\* _renderFlaggedViewports: this._animationFrameSet = false
FrameFlagAfterRender == FALSE

\* _renderFlaggedViewports after the last viewport: the flag is cleared and
\* the events are triggered
frameEnd ==
  /\ pc = "render"
  /\ queue = <<>>
  /\ animationFrameSet' = FrameFlagAfterRender
  /\ pc' = "idle"
  /\ eventDetails' = <<>>
  /\ hist' = [hist EXCEPT !.op = "frameEnd", !.resizeCalls = 0,
                          !.events = @ \o EventsTriggered(eventDetails)]
  /\ UNCHANGED <<orient, tool, loader, ecg, useCPURendering, poolSize, viewportOrder, vp, canvas, client, pool, container,
                 renderers, widgets, needsRender, frameCallbacks, queue>>

\* ------------------------------------------------------------------ resize
\* the viewports resize() hands to _resizeVTKViewports
VtkDrivenViewports ==
  SelectSeq(viewportOrder, LAMBDA id : ~UsesCustomPipeline(vp[id].type))

\* _resizeVTKViewports: the displayed size is not zero and differs from the
\* rendered size
NeedsResize(id) ==
  /\ client[id][1] # 0
  /\ client[id][2] # 0
  /\ client[id][1] # canvas[id].width \/ client[id][2] # canvas[id].height

ViewportsNeedingResize == {id \in SeqToSet(VtkDrivenViewports) : NeedsResize(id)}

\* a mutant of ResizeIsDeferred: a scheduled frame defers nothing
ResizeNeverDeferred == FALSE

\* _resizeVTKViewports: if (this._animationFrameSet) return
ResizeIsDeferred == animationFrameSet

\* a mutant of TargetSize: the displayed size as it is
TargetSizeUnclamped(id) == client[id]

\* targetWidth and targetHeight of _resizeVTKViewports
TargetSize(id) ==
  <<Max2(VIEWPORT_MIN_SIZE, client[id][1]),
    Max2(VIEWPORT_MIN_SIZE, client[id][2])>>

\* the viewports after vp.sWidth = targetWidth, vp.sHeight = targetHeight
ViewportsSized ==
  [id \in DOMAIN vp |->
     IF id \in ViewportsNeedingResize
     THEN [vp[id] EXCEPT !.sWidth = TargetSize(id)[1],
                         !.sHeight = TargetSize(id)[2]]
     ELSE vp[id]]

\* a mutant of ResizePoolUpdate: the pool is not told the new size
ResizePoolUpdateSkipped(p, id, w, h) == p

\* _resize: contextPool.updateViewportSize(viewport.id, sWidth, sHeight)
ResizePoolUpdate(p, id, w, h) == PoolUpdateViewportSize(p, id, w, h)

RECURSIVE ResizeEach(_, _, _)
\* the loop of _resize over the viewports, in order: st holds the pool, the
\* renderers and contextsToResize
ResizeEach(ids, vps, st) ==
  IF ids = <<>> THEN st
  ELSE LET id == Head(ids)
           w == vps[id].sWidth
           h == vps[id].sHeight
           ci == PoolContextOf(st.pool, id)
           p1 == ResizePoolUpdate(st.pool, id, w, h)
           changed == p1.contextMaxSizes # st.pool.contextMaxSizes
           rect == ViewportRect(w, h, PoolMaxSize(p1, ci))
       IN ResizeEach(Tail(ids), vps,
            [pool |-> p1,
             renderers |-> [st.renderers EXCEPT ![ci][id].viewport = rect],
             contextsToResize |-> IF changed
                                  THEN st.contextsToResize \cup {ci}
                                  ELSE st.contextsToResize])

\* _resize: the loop, then the containers of the contexts whose maximum
\* changed take the maximum
Resized(ids, vps) ==
  LET st == ResizeEach(ids, vps, [pool |-> pool, renderers |-> renderers,
                                  contextsToResize |-> {}])
  IN [pool |-> st.pool,
      renderers |-> st.renderers,
      container |-> [c \in DOMAIN container |->
                       IF c \in st.contextsToResize
                       THEN PoolMaxSize(st.pool, c) ELSE container[c]]]

\* viewport.resetCameraForResize(): the camera that fits the new size
ResetCameraForResize(v) == DefaultCamera

\* a mutant of CameraAfterResize: a kept camera is reapplied whole, display
\* area or not
CameraAfterResizeKeptWhole(v, keepCamera) ==
  IF keepCamera THEN v.camera ELSE ResetCameraForResize(v)

\* the camera of a viewport after the forEach of _resizeVTKViewports
CameraAfterResize(v, keepCamera) ==
  LET prevCamera == v.camera
      reset == ResetCameraForResize(v)
  IN IF ~keepCamera THEN reset
     ELSE IF v.displayArea
     THEN [reset EXCEPT
             !.flipHorizontal = IF prevCamera.flipHorizontal THEN TRUE ELSE @,
             !.rotation = IF prevCamera.rotation # 0
                          THEN prevCamera.rotation ELSE @]
     ELSE prevCamera

\* a mutant of ViewportsPassedToResize: only the viewports whose size differs
ViewportsPassedToResizeDiffering == SelectSeq(VtkDrivenViewports, NeedsResize)

\* _resizeVTKViewports: this._resize(vtkDrivenViewports)
ViewportsPassedToResize == VtkDrivenViewports

\* _resizeVTKViewports over the vtk.js driven viewports of the engine
resize(keepCamera, immediate) ==
  /\ pc = "idle"
  /\ IF ViewportsNeedingResize = {} \/ ResizeIsDeferred
     THEN /\ hist' = [Observed("resize") EXCEPT
                        !.resizeCalls = Capped(hist.resizeCalls),
                        !.deferred = ViewportsNeedingResize # {}]
          /\ UNCHANGED <<vp, pool, renderers, container, needsRender,
                         animationFrameSet, frameCallbacks>>
     ELSE LET r == Resized(ViewportsPassedToResize, ViewportsSized)
          IN /\ vp' = [id \in DOMAIN vp |->
                         IF UsesCustomPipeline(vp[id].type) THEN vp[id]
                         ELSE [ViewportsSized[id] EXCEPT !.camera =
                                 CameraAfterResize(vp[id], keepCamera)]]
             /\ pool' = r.pool
             /\ renderers' = r.renderers
             /\ container' = r.container
             /\ IF immediate
                THEN SetViewportsToBeRenderedNextFrame(viewportOrder)
                ELSE UNCHANGED <<needsRender, animationFrameSet,
                                 frameCallbacks>>
             /\ hist' = [Observed("resize") EXCEPT
                           !.resizeCalls = Capped(hist.resizeCalls)]
  /\ UNCHANGED <<orient, tool, loader, ecg, useCPURendering, poolSize, viewportOrder, canvas, client, widgets, pc, queue,
                 eventDetails>>

\* ------------------------------------------------- ECGViewport, its calls
EngineVars == <<useCPURendering, poolSize, viewportOrder, vp, canvas, client,
                pool, container, renderers, widgets, needsRender,
                animationFrameSet, frameCallbacks, pc, queue, eventDetails,
                hist>>

\* what the last call leaves for an observer: its name, its argument and
\* whether renderFrame triggered IMAGE_RENDERED
Called(e, name, arg) ==
  [RenderFrame(e) EXCEPT !.lastCall = name, !.arg = arg,
                         !.rendered = e.loaded,
                         !.savedScale = QInt(0), !.savedHeight = QInt(0)]

\* setEcg: this.imageId = imageId comes before the look at the metadata
ImageIdOnFailure(e, imageId) == imageId

\* setEcg when the metadata has no waveformData.retrieveBulkData ("none") or
\* retrieveBulkData rejects ("rejects"): the call throws
setEcgFails(imageId, why) ==
  /\ why \in {"none", "rejects"}
  /\ ecg' = [ecg EXCEPT !.imageId = ImageIdOnFailure(ecg, imageId),
                        !.lastCall = "setEcgThrew", !.arg = imageId,
                        !.rendered = FALSE,
                        !.savedScale = QInt(0), !.savedHeight = QInt(0)]
  /\ UNCHANGED <<orient, tool, loader, EngineVars>>

\* setEcg: the channel descriptors of the channel arrays
ChannelsOf(m) ==
  [i \in 1..Len(m.channelArrays) |->
     [min |-> ComputeMinMax(m.channelArrays[i]).min,
      max |-> ComputeMinMax(m.channelArrays[i]).max,
      visible |-> TRUE,
      hasData |-> m.channelArrays[i] # <<>>]]

\* setEcg when the metadata provider has the module m for the image id
setEcg(imageId, m) ==
  /\ LET e1 == [ecg EXCEPT
                  !.imageId = imageId,
                  !.channels = ChannelsOf(m),
                  !.loaded = TRUE,
                  !.numberOfSamples = m.numberOfSamples,
                  !.ecgWidth = CeilDiv(m.numberOfSamples * SECONDS_WIDTH,
                                       m.samplingFrequency)]
     IN ecg' = Called(Relayout(e1), "setEcg", imageId)
  /\ UNCHANGED <<orient, tool, loader, EngineVars>>

\* a mutant of WithVisibility: a hidden channel gives up its samples
WithVisibilityDroppingData(c, visible) ==
  [c EXCEPT !.visible = visible, !.hasData = @ /\ visible]

\* setChannelVisibility: this.channels[index].visible = visible
WithVisibility(c, visible) == [c EXCEPT !.visible = visible]

\* setChannelVisibility
setChannelVisibility(index, visible) ==
  /\ IF index >= 0 /\ index < Len(ecg.channels)
     THEN LET was == ecg.channels[index + 1].visible
              e1 == [ecg EXCEPT !.channels[index + 1] =
                                  WithVisibility(@, visible)]
              name == IF visible THEN "show"
                      ELSE IF was THEN "hide" ELSE "hideAgain"
          IN ecg' = [Called(Relayout(e1), name, index) EXCEPT
                       !.savedScale = IF name = "hide" THEN ecg.channelScale
                                      ELSE QInt(0),
                       !.savedHeight = IF name = "hide" THEN ecg.ecgHeight
                                       ELSE QInt(0)]
     ELSE ecg' = [Called(ecg, "noChannel", index) EXCEPT !.rendered = FALSE]
  /\ UNCHANGED <<orient, tool, loader, EngineVars>>

\* the layout gives the canvas a new size and resize() is called
resizeEcg(size) ==
  /\ size # ecg.offset
  /\ LET e1 == [ecg EXCEPT !.offset = size]
     IN ecg' = Called(IF ecg.loaded THEN Relayout(e1)
                      ELSE RefreshRenderValues(e1), "resize", 0)
  /\ UNCHANGED <<orient, tool, loader, EngineVars>>

\* --------------------------------------------------- ECGHelpers: the calls
\* getECGModule(metadata)
getECGModule ==
  /\ LET md == loader.metadata
     IN loader' =
          IF md.sequence \in {"absent", "empty"}
          THEN [loader EXCEPT !.module = "null", !.m = NoModule,
                              !.result = NoResult, !.lastCall = "getECGModule"]
          ELSE [loader EXCEPT
                  !.module = "module",
                  !.m = [waveformData |-> md.waveformData, bytes |-> md.bytes,
                         numberOfChannels |-> md.numberOfChannels,
                         numberOfSamples |-> md.numberOfSamples,
                         bits |-> IF md.bitsTag = 0 THEN 16 ELSE md.bitsTag,
                         type |-> IF md.typeTag = "absent" THEN "SS"
                                  ELSE md.typeTag],
                  !.result = NoResult, !.lastCall = "getECGModule"]
  /\ UNCHANGED <<orient, tool, ecg, EngineVars>>

\* ecgModule.waveformData.retrieveBulkData()
retrieveBulkData(ok) ==
  /\ loader.module = "module"
  /\ loader' = [loader EXCEPT !.result = RetrieveBulkData(loader.m, ok),
                              !.lastCall = "retrieveBulkData"]
  /\ UNCHANGED <<orient, tool, ecg, EngineVars>>

\* ------------------------------------------------- text boxes: the calls
\* draw(): clearTextBoxRegistry at the start of a render cycle
clearTextBoxRegistry ==
  /\ tool' = [tool EXCEPT !.boxes = <<>>, !.lastCall = "clear"]
  /\ UNCHANGED <<orient, loader, ecg, EngineVars>>

\* registerTextBox after a text box was drawn
registerTextBox(rect) ==
  /\ Len(tool.boxes) < MaxBoxes
  /\ tool' = [tool EXCEPT !.boxes = Append(@, rect), !.lastCall = "register"]
  /\ UNCHANGED <<orient, loader, ecg, EngineVars>>

\* getTextBoxCoordsCanvas(annotationCanvasPoints, element, textLines)
getTextBoxCoordsCanvas(points, element, textLines) ==
  /\ tool' = [tool EXCEPT
                !.lastCall = "getTextBoxCoordsCanvas",
                !.placed = PlacedInElement(points, element, textLines),
                !.svgLayer = element.present /\ element.svgLayer,
                !.result = GetTextBoxCoordsCanvas(points, element, textLines,
                                                  tool.boxes)]
  /\ UNCHANGED <<orient, loader, ecg, EngineVars>>

\* --------------------------------------------------------- specifications
\* the camera after the user zoomed, flipped and rotated the view
UserCamera == [zoom |-> 2, flipHorizontal |-> TRUE, rotation |-> 90]
Cameras == {DefaultCamera, UserCamera}

\* the frame callback, step by step; nothing else runs until it returns
Frame == frameStart \/ renderNext \/ drawDone \/ frameEnd

\* enabling and disabling viewports of every kind
NextAssign ==
  \E id \in Ids :
    \/ \E type \in GpuTypes \cup UnsupportedTypes :
         addVtkjsDrivenViewport(id, type, DefaultCanvas)
    \/ \E type \in CustomTypes : addCustomViewport(id, type, DefaultCanvas)
    \/ disableElement(id)

SpecAssign == Init /\ [][NextAssign]_vars

\* flagging and rendering viewports whose canvases change their displayed size
NextFrame ==
  \/ \E id \in RenderIds :
       \/ \E size \in {DefaultCanvas, <<1, 1>>} :
            addVtkjsDrivenViewport(id, "STACK", size)
       \/ \E type \in CustomTypes : addCustomViewport(id, type, DefaultCanvas)
       \/ disableElement(id)
       \/ \E size \in {DefaultCanvas, <<0, 0>>} : setClientSize(id, size)
       \/ addWidget(id)
       \/ loadWaveform(id)
       \/ renderViewport(id)
  \/ Frame

SpecFrame == Init /\ [][NextFrame]_vars

\* resizing stack viewports, with frames in between
NextResize ==
  \/ \E id \in RenderIds :
       \/ addVtkjsDrivenViewport(id, "STACK", DefaultCanvas)
       \/ disableElement(id)
       \/ \E size \in ClientSizes : setClientSize(id, size)
  \/ \E keepCamera \in BOOLEAN, immediate \in BOOLEAN :
       resize(keepCamera, immediate)
  \/ Frame

SpecResize == Init /\ [][NextResize]_vars

\* displayed sizes with one side zero, with a side below the minimum, and others
ClampSizes == {<<0, 3>>, <<0, 0>>, <<1, 3>>, <<3, 1>>, <<3, 2>>}

\* resizing stack viewports whose displayed sizes are degenerate or tiny
NextClamp ==
  \/ \E id \in RenderIds :
       \/ addVtkjsDrivenViewport(id, "STACK", DefaultCanvas)
       \/ \E size \in ClampSizes : setClientSize(id, size)
  \/ \E keepCamera \in BOOLEAN, immediate \in BOOLEAN :
       resize(keepCamera, immediate)
  \/ Frame

SpecClamp == Init /\ [][NextClamp]_vars

\* resizing viewports whose cameras the user has set, with frames in between
NextCamera ==
  \/ \E id \in RenderIds :
       \/ addVtkjsDrivenViewport(id, "STACK", DefaultCanvas)
       \/ \E size \in {<<3, 2>>, <<3, 3>>} : setClientSize(id, size)
       \/ \E cam \in Cameras, fit \in BOOLEAN : setCamera(id, cam, fit)
  \/ \E keepCamera \in BOOLEAN, immediate \in BOOLEAN :
       resize(keepCamera, immediate)
  \/ Frame

SpecCamera == Init /\ [][NextCamera]_vars

\* viewports are enabled and released, the engine is destroyed, and released
\* ids are used again
NextRelease ==
  \/ \E id \in Ids :
       \/ addVtkjsDrivenViewport(id, "STACK", DefaultCanvas)
       \/ \E type \in CustomTypes : addCustomViewport(id, type, DefaultCanvas)
       \/ disableElement(id)
       \/ disableReleased(id)
       \/ getRenderer(id)
  \/ destroy

SpecRelease == Init /\ [][NextRelease]_vars

\* one waveform viewport: loads that succeed and fail, channels hidden and
\* shown, the canvas resized
NextEcg ==
  \/ \E imageId \in 1..NumImageIds :
       \/ \E why \in {"none", "rejects"} : setEcgFails(imageId, why)
       \/ \E m \in EcgModules : setEcg(imageId, m)
  \/ \E index \in 0..MaxChannelIndex, visible \in BOOLEAN :
       setChannelVisibility(index, visible)
  \/ \E size \in EcgCanvasSizes : resizeEcg(size)

InitEcg ==
  InitEngine(FALSE) /\ poolSize = 1 /\ loader = NewLoader /\ tool = NewTool

SpecEcg == InitEcg /\ [][NextEcg]_vars

\* what the metadata provider gives when the grid is looked at: one channel
\* of range 100; channels of ranges 100, 200 and 50; one channel of range
\* 900 over twice the time
GridModules ==
  {[numberOfSamples |-> 4, samplingFrequency |-> 20,
    channelArrays |-> <<<<0, 100, 50, 0>>>>],
   [numberOfSamples |-> 4, samplingFrequency |-> 20,
    channelArrays |-> <<<<0, 100, 50, 0>>, <<-100, 100, 0, 0>>,
                        <<0, 50, 0, 0>>>>],
   [numberOfSamples |-> 8, samplingFrequency |-> 20,
    channelArrays |-> <<<<0, 900, 450, 0, 0, 900, 450, 0>>>>]}

\* offsetWidth and offsetHeight of the canvas when the grid is looked at
GridCanvasSizes == {<<300, 200>>, <<200, 200>>, <<200, 100>>, <<300, 100>>}

\* one waveform viewport whose grid is drawn at many scales: loads, channels
\* hidden and shown, the canvas resized
NextGrid ==
  \/ \E imageId \in 1..NumImageIds, m \in GridModules \cup EcgModules :
       setEcg(imageId, m)
  \/ \E index \in 0..MaxChannelIndex, visible \in BOOLEAN :
       setChannelVisibility(index, visible)
  \/ \E size \in GridCanvasSizes : resizeEcg(size)

SpecGrid == InitEcg /\ [][NextGrid]_vars

\* metadata of every shape is parsed and its bulk data retrieved
NextLoader ==
  \/ getECGModule
  \/ \E ok \in BOOLEAN : retrieveBulkData(ok)

InitLoader ==
  /\ InitEngine(FALSE)
  /\ poolSize = 1
  /\ tool = NewTool
  /\ \E md \in Metadatas : loader = [NewLoader EXCEPT !.metadata = md]

SpecLoader == InitLoader /\ [][NextLoader]_vars

\* the annotations of a frame: text boxes are registered and placed
NextTextBox ==
  \/ clearTextBoxRegistry
  \/ \E rect \in TextBoxRects : registerTextBox(rect)
  \/ \E points \in AnnotationPoints, element \in Elements,
        textLines \in TextLines :
       getTextBoxCoordsCanvas(points, element, textLines)

SpecTextBox == InitEcg /\ [][NextTextBox]_vars

\* ----------------------------------------- OrientationControllerTool: calls
\* the rendering engine enables the element of a viewport
enableToolElement(id) ==
  /\ id \notin orient.elements
  /\ orient' = [orient EXCEPT !.elements = @ \cup {id}]
  /\ UNCHANGED <<tool, loader, ecg, EngineVars>>

\* the rendering engine disables the element of a viewport
disableToolElement(id) ==
  /\ id \in orient.elements
  /\ orient' = [orient EXCEPT !.elements = @ \ {id}]
  /\ UNCHANGED <<tool, loader, ecg, EngineVars>>

\* onSetToolEnabled
onSetToolEnabled ==
  /\ \A id \in orient.inGroup \cap orient.elements :
       orient.timers[id] < MaxTimers
  /\ orient' = [AddMarkers(RemoveMarkers(orient)) EXCEPT !.listening = TRUE]
  /\ UNCHANGED <<tool, loader, ecg, EngineVars>>

\* onSetToolDisabled
onSetToolDisabled ==
  /\ orient' = [RemoveMarkers(orient) EXCEPT !.listening = FALSE]
  /\ UNCHANGED <<tool, loader, ecg, EngineVars>>

\* onSetToolConfiguration
onSetToolConfiguration ==
  /\ \A id \in orient.inGroup \cap orient.elements :
       orient.timers[id] < MaxTimers
  /\ orient' = IF orient.inGroup \cap orient.actors # {}
               THEN AddMarkers(RemoveMarkers(orient))
               ELSE orient
  /\ UNCHANGED <<tool, loader, ecg, EngineVars>>

\* a viewport joins the tool group: TOOLGROUP_VIEWPORT_ADDED
viewportAdded(id) ==
  /\ id \notin orient.inGroup
  /\ orient.timers[id] < MaxTimers
  /\ LET o == [orient EXCEPT !.inGroup = @ \cup {id}]
     IN orient' = IF orient.listening THEN OnViewportAdded(o, id) ELSE o
  /\ UNCHANGED <<tool, loader, ecg, EngineVars>>

\* a viewport leaves the tool group: TOOLGROUP_VIEWPORT_REMOVED
viewportRemoved(id) ==
  /\ id \in orient.inGroup
  /\ LET o == [orient EXCEPT !.inGroup = @ \ {id}]
     IN orient' = IF orient.listening THEN OnViewportRemoved(o, id) ELSE o
  /\ UNCHANGED <<tool, loader, ecg, EngineVars>>

\* a timer of addMarkers or onViewportAdded fires
addMarkerTimer(id, positioned) ==
  /\ orient.timers[id] > 0
  /\ orient.observers[id] < MaxObservers
  /\ orient.handlers[id] < MaxObservers
  /\ orient.retries[id] < MaxTimers
  /\ orient' = AddMarkerToViewport([orient EXCEPT !.timers[id] = @ - 1],
                                   id, positioned)
  /\ UNCHANGED <<tool, loader, ecg, EngineVars>>

\* the retry timer of addMarkerToViewport fires
retryTimer(id, repositioned) ==
  /\ orient.retries[id] > 0
  /\ orient' = [orient EXCEPT
                  !.retries[id] = @ - 1,
                  !.renderRequested = IF repositioned THEN @ \cup {id}
                                      ELSE @]
  /\ UNCHANGED <<tool, loader, ecg, EngineVars>>

\* the tool is enabled, configured and disabled while viewports come and go
\* and timers fire
NextOrient ==
  \/ \E id \in ToolViewportIds :
       \/ enableToolElement(id)
       \/ disableToolElement(id)
       \/ viewportAdded(id)
       \/ viewportRemoved(id)
       \/ \E positioned \in BOOLEAN : addMarkerTimer(id, positioned)
       \/ \E repositioned \in BOOLEAN : retryTimer(id, repositioned)
  \/ onSetToolEnabled
  \/ onSetToolDisabled
  \/ onSetToolConfiguration

SpecOrient == InitEcg /\ [][NextOrient]_vars

\* an engine without a GPU: viewports of both pipelines, flagged and rendered
NextCpu ==
  \/ \E id \in Ids :
       \/ \E type \in {"ORTHOGRAPHIC", "ECG"} :
            addCustomViewport(id, type, DefaultCanvas)
       \/ loadWaveform(id)
       \/ disableElement(id)
       \/ renderViewport(id)
  \/ frameStart
  \/ renderNext
  \/ frameEnd

SpecCpu == InitCpu /\ [][NextCpu]_vars

\* ------------------------------------------------------------- properties
Footprint(v) == <<v.sWidth, v.sHeight>>
GpuViewports == {id \in DOMAIN vp : ~UsesCustomPipeline(vp[id].type)}
OnContext(ci) == {id \in GpuViewports : PoolContextOf(pool, id) = ci}

\* C1: with a pool of N contexts and only stack viewports enabled one after
\* another, none disabled, the k-th enabled viewport (counted from 0) is on
\* context k mod N
C1_RoundRobin ==
  hist.onlyStackEnables =>
    \A k \in 1..Len(viewportOrder) :
      PoolContextOf(pool, viewportOrder[k]) = (k - 1) % poolSize

\* C1: a pool of 2 with three stack viewports on contexts 0, 1, 0
C1_Witness ==
  /\ hist.onlyStackEnables
  /\ poolSize = 2
  /\ Len(viewportOrder) = 3
  /\ PoolContextOf(pool, viewportOrder[1]) = 0
  /\ PoolContextOf(pool, viewportOrder[2]) = 1
  /\ PoolContextOf(pool, viewportOrder[3]) = 0

\* C2: the maximum size of a context is at least the requested size
\* (sWidth, sHeight) of every viewport assigned to that context
C2_MaxCoversAssigned ==
  \A id \in GpuViewports :
    LET ci == PoolContextOf(pool, id)
    IN /\ ci \in Contexts
       /\ PoolMaxSize(pool, ci)[1] >= vp[id].sWidth
       /\ PoolMaxSize(pool, ci)[2] >= vp[id].sHeight

\* C2: after a resize, two viewports of different sizes share a context
C2_Witness ==
  /\ hist.op = "resize"
  /\ \E a \in GpuViewports, b \in GpuViewports :
       /\ PoolContextOf(pool, a) = PoolContextOf(pool, b)
       /\ Footprint(vp[a]) = <<2, 2>>
       /\ Footprint(vp[b]) = <<3, 3>>

\* C3 as stated: while the scene render of a pass for viewport V executes,
\* the renderer of V is the only renderer of its context that draws, and no
\* widget renderer on that context draws
C3_OnlySubRendererDraws ==
  pc = "draw" =>
    LET id == Head(queue)
        ci == PoolContextOf(pool, id)
    IN /\ \A x \in DOMAIN renderers[ci] : renderers[ci][x].draw <=> (x = id)
       /\ \A w \in DOMAIN widgets :
            PoolContextOf(pool, w) = ci => ~widgets[w].draw

\* C3 as amended: while the scene render of a pass for viewport V executes,
\* the renderer of V is the only renderer of its context that draws, and a
\* widget renderer draws exactly when it belongs to V
C3_IsolatedDraw ==
  pc = "draw" =>
    LET id == Head(queue)
        ci == PoolContextOf(pool, id)
    IN /\ \A x \in DOMAIN renderers[ci] : renderers[ci][x].draw <=> (x = id)
       /\ \A w \in DOMAIN widgets : widgets[w].draw <=> (w = id)

\* C3: a pass for a viewport that shares its context with another one, both
\* with a widget
C3_Witness ==
  /\ pc = "draw"
  /\ Cardinality(OnContext(PoolContextOf(pool, Head(queue)))) = 2
  /\ OnContext(PoolContextOf(pool, Head(queue))) \subseteq DOMAIN widgets

\* C4: however many viewports were flagged since the last frame callback
\* fired, exactly one frame callback is registered
C4_OneFrameCallback ==
  /\ frameCallbacks \in {0, 1}
  /\ (pc = "idle" /\ needsRender # <<>>) =>
       (frameCallbacks = 1 /\ animationFrameSet)

\* C4: two viewports flagged, one callback
C4_Witness ==
  /\ pc = "idle"
  /\ Len(needsRender) = 2
  /\ frameCallbacks = 1

C6_SkippedStaysFlagged ==
  hist.op = "frameEnd" =>
    \A id \in hist.skipped :
      ~UsesCustomPipeline(vp[id].type) => id \in NeedsRenderSet

\* C7: an enable that throws for an unsupported type leaves the assignments,
\* the sizes and maxima of the pool, the renderers of the contexts and the
\* viewports of the engine as they were
C7_UnsupportedLeavesNoTrace ==
  [][hist'.op = "enableThrew" =>
       (pool' = pool /\ renderers' = renderers /\ vp' = vp)]_vars

\* a viewport u of context ci whose requested size comes to exceed the
\* maximum of the context, and is not below that of another viewport there
Grows(u, ci) ==
  /\ u \in DOMAIN vp'
  /\ PoolContextOf(pool', u) = ci
  /\ u \notin DOMAIN vp \/ Footprint(vp'[u]) # Footprint(vp[u])
  /\ Footprint(vp'[u])[1] > PoolMaxSize(pool, ci)[1]
  /\ Footprint(vp'[u])[2] > PoolMaxSize(pool, ci)[2]
  /\ \A x \in DOMAIN vp' :
       PoolContextOf(pool', x) = ci =>
         /\ vp'[x].sWidth <= vp'[u].sWidth
         /\ vp'[x].sHeight <= vp'[u].sHeight

\* the maximum becomes the size of u; a viewport that was not itself due for
\* a resize keeps its size
GrowsMaximum(u, ci) ==
  /\ PoolMaxSize(pool', ci) = Footprint(vp'[u])
  /\ \A x \in (DOMAIN vp \cap DOMAIN vp') \ {u} :
       x \notin ViewportsNeedingResize
         => Footprint(vp'[x]) = Footprint(vp[x])

\* the rectangle of every other viewport of the context is its size over the
\* new maximum
RectsFollow(u, ci) ==
  \A x \in (DOMAIN vp \cap DOMAIN vp') \ {u} :
    PoolContextOf(pool', x) = ci =>
      renderers'[ci][x].viewport =
        <<MinOneRatio(vp'[x].sWidth, PoolMaxSize(pool', ci)[1]),
          MinOneRatio(vp'[x].sHeight, PoolMaxSize(pool', ci)[2])>>

DrawnRectIsCurrent ==
  pc = "draw" =>
    LET id == Head(queue)
        ci == PoolContextOf(pool, id)
    IN renderers[ci][id].viewport =
         <<MinOneRatio(vp[id].sWidth, PoolMaxSize(pool, ci)[1]),
           MinOneRatio(vp[id].sHeight, PoolMaxSize(pool, ci)[2])>>

C10_DeferredResizeChangesNothing ==
  [][(hist'.op = "resize" /\ animationFrameSet) =>
       UNCHANGED <<vp, pool, container, renderers, canvas, needsRender,
                   animationFrameSet, frameCallbacks>>]_vars

\* C10: after a call of resize with a frame scheduled, a viewport whose
\* camera the user has set still waits for its displayed size
C10_Witness ==
  /\ hist.op = "resize"
  /\ animationFrameSet
  /\ \E id \in ViewportsNeedingResize :
       /\ Footprint(vp[id]) # TargetSize(id)
       /\ vp[id].camera = UserCamera

C12_CanvasChangesOnlyInCopy ==
  [][\A id \in DOMAIN vp \cap DOMAIN vp' :
       (~UsesCustomPipeline(vp[id].type) /\ canvas'[id] # canvas[id]) =>
         /\ pc = "draw"
         /\ Head(queue) = id
         /\ hist'.op = "copy"
         /\ canvas'[id] = [width |-> vp[id].sWidth, height |-> vp[id].sHeight,
                           aspect |-> <<vp[id].sWidth, vp[id].sHeight>>]]_vars

\* C12: a copy has given a canvas the size a resize had requested
C12_Witness ==
  /\ hist.op = "copy"
  /\ \E id \in GpuViewports :
       /\ canvas[id] = [width |-> 3, height |-> 3, aspect |-> <<3, 3>>]
       /\ Footprint(vp[id]) = <<3, 3>>

\* C13, second half: in an engine without a GPU, a viewport of the custom
\* pipeline that has its data and was flagged for a frame is rendered in it,
\* whatever becomes of the viewports that require the GPU
C13_CustomStillRendered ==
  (useCPURendering /\ hist.op = "renderThrew") =>
    \A id \in SeqToSet(hist.flaggedAtFrame) :
      (UsesCustomPipeline(vp[id].type) /\ vp[id].hasWaveform)
        => id \in SeqToSet(hist.rendered)

\* the viewports that leave the engine in a step
Released == DOMAIN vp \ DOMAIN vp'

EventsOf(id) ==
  {i \in 1..Len(hist.events) : hist.events[i].viewportId = id}

\* C15 as stated: when a frame has completed, every viewport rendered in it
\* has exactly one event, which carries element, viewportId,
\* renderingEngineId and viewportStatus, and a skipped viewport has none
C15_OneFullEventPerRendered ==
  hist.op = "frameEnd" =>
    /\ \A id \in SeqToSet(hist.rendered) :
         /\ Cardinality(EventsOf(id)) = 1
         /\ \A i \in EventsOf(id) :
              {"element", "viewportId", "renderingEngineId", "viewportStatus"}
                \subseteq hist.events[i].fields
    /\ \A id \in hist.skipped : EventsOf(id) = {}

\* C15 as amended: when a frame has completed, every viewport rendered in it
\* has exactly one event and a skipped viewport has none; the event of a
\* viewport of the vtk.js pipeline carries element, suppressEvents,
\* viewportId, renderingEngineId and viewportStatus, the event of a waveform
\* viewport carries element, viewportId, viewport and renderingEngineId
C15_OneEventPerRendered ==
  hist.op = "frameEnd" =>
    /\ \A id \in SeqToSet(hist.rendered) :
         /\ Cardinality(EventsOf(id)) = 1
         /\ \A i \in EventsOf(id) :
              hist.events[i].fields =
                IF UsesCustomPipeline(vp[id].type)
                THEN {"element", "viewportId", "viewport", "renderingEngineId"}
                ELSE {"element", "suppressEvents", "viewportId",
                      "renderingEngineId", "viewportStatus"}
    /\ \A id \in hist.skipped : EventsOf(id) = {}

\* C15: a frame that rendered a viewport of each pipeline and skipped none
C15_Witness ==
  /\ hist.op = "frameEnd"
  /\ Len(hist.rendered) = 2
  /\ \E a \in SeqToSet(hist.rendered), b \in SeqToSet(hist.rendered) :
       UsesCustomPipeline(vp[a].type) /\ ~UsesCustomPipeline(vp[b].type)

\* C16: a call of setEcg that throws leaves the image id, the channels and
\* the waveform data as they were, and triggers no IMAGE_RENDERED
C16_FailedLoadChangesNothing ==
  [][ecg'.lastCall = "setEcgThrew" =>
       /\ ecg'.imageId = ecg.imageId
       /\ ecg'.channels = ecg.channels
       /\ ecg'.loaded = ecg.loaded
       /\ ~ecg'.rendered]_vars


\* ---------------------------------------------------------------- C17
\* amplitudes inside the band of a channel: its minimum, middle and maximum
BandAmplitudes(c) == {c.min, (c.min + c.max) \div 2, c.max}

\* canvasToWorld(worldToCanvas([s, a, c])) is within 1 of [s, a, c]
RoundTripClose(e, s, a, c) ==
  LET back == CanvasToWorld(e, WorldToCanvas(e, <<s, a, c>>))
  IN /\ back # "TypeError"
     /\ QLess(QAbs(QSub(back[1], QInt(s))), QInt(1))
     /\ QLess(QAbs(QSub(back[2], QInt(a))), QInt(1))
     /\ QLess(QAbs(QSub(back[3], QInt(c))), QInt(1))

\* the indices (0-based) of the channels that are visible and have samples
VisibleIndices(e) ==
  {c \in 0..(Len(e.channels) - 1) :
     e.channels[c + 1].visible /\ e.channels[c + 1].hasData}

\* C17: in a loaded waveform viewport, for every visible channel index c,
\* every sample index s within the sample bounds and every amplitude a inside
\* the band of the channel, canvasToWorld(worldToCanvas([s, a, c])) is within
\* 1 of [s, a, c] in each component, whatever channels are hidden.
C17_RoundTripWithinOne ==
  ecg.loaded =>
    \A c \in VisibleIndices(ecg) :
      \A s \in 0..(ecg.numberOfSamples - 1) :
        \A a \in BandAmplitudes(ecg.channels[c + 1]) :
          RoundTripClose(ecg, s, a, c)

\* ---------------------------------------------------------------- C18
\* C18: setChannelVisibility(i, false) on a visible channel followed at once
\* by setChannelVisibility(i, true), the samples and the canvas size being
\* the same, gives the amplitude scale and the total content height that the
\* viewport had before the channel was hidden.
C18_HideThenShowRestores ==
  [][(ecg.lastCall = "hide" /\ ecg'.lastCall = "show" /\ ecg'.arg = ecg.arg)
       => /\ ecg'.channelScale = ecg.savedScale
          /\ ecg'.ecgHeight = ecg.savedHeight]_vars

\* a channel was hidden, which changed the scale, and is shown again
C18_Witness ==
  /\ ecg.lastCall = "show"
  /\ ecg.loaded
  /\ ecg.channels[ecg.arg + 1].visible
  /\ ecg.channels[ecg.arg + 1].hasData
  /\ ecg.channelScale = Q(1, 225)
  /\ \E i \in 1..Len(ecg.channels) : ~ecg.channels[i].visible

\* ---------------------------------------------------------------- C19
RECURSIVE LargestVisibleRange(_, _)
\* the largest max - min among the visible channels i..last, at least 1
LargestVisibleRange(e, i) ==
  IF i >= Len(e.channels) THEN 1
  ELSE IF i \in VisibleIndices(e)
       THEN Max2(e.channels[i + 1].max - e.channels[i + 1].min,
                 LargestVisibleRange(e, i + 1))
       ELSE LargestVisibleRange(e, i + 1)

\* the scale that fits the visible channels, each given the largest visible
\* range with 25% headroom and followed by the gap, into ecgWidth * aspect
ScaleOfVisible(e) ==
  LET n == Cardinality(VisibleIndices(e))
      target == QMul(QInt(e.ecgWidth), Q(e.offset[2], e.offset[1]))
  IN IF n = 0 THEN QInt(0)
     ELSE Q((target[1] - CHANNEL_SPACING * n * target[2]) * 4,
            target[2] * n * LargestVisibleRange(e, 0) * 5)

RECURSIVE BandsOfVisible(_, _)
\* the sum of the bands (range * scale * 1.25 + gap) of the visible channels
BandsOfVisible(e, i) ==
  IF i >= Len(e.channels) THEN QInt(0)
  ELSE IF i \in VisibleIndices(e)
       THEN QAdd(QAdd(Q((e.channels[i + 1].max - e.channels[i + 1].min)
                          * e.channelScale[1] * 5, e.channelScale[2] * 4),
                      QInt(CHANNEL_SPACING)),
                 BandsOfVisible(e, i + 1))
       ELSE BandsOfVisible(e, i + 1)

\* C19: after a channel is hidden, the scale comes from the largest range of
\* the still visible channels only, the total content height is the sum of
\* the bands of the still visible channels only, and there is one band per
\* still visible channel; with channels of ranges [0, 900] and [-900, 0],
\* hiding channel 1 keeps maxRange at 900 and leaves exactly one band.
C19_HiddenChannelLeftOut ==
  (ecg.lastCall \in {"hide", "hideAgain"}) =>
    /\ ecg.channelScale = ScaleOfVisible(ecg)
    /\ ecg.ecgHeight = BandsOfVisible(ecg, 0)
    /\ Len(ComputeChannelLayouts(ecg)) = Cardinality(VisibleIndices(ecg))
    /\ (/\ ecg.arg = 1
        /\ Len(ecg.channels) = 2
        /\ ecg.channels[1].visible
        /\ <<ecg.channels[1].min, ecg.channels[1].max>> = <<0, 900>>
        /\ <<ecg.channels[2].min, ecg.channels[2].max>> = <<-900, 0>>)
       => /\ MaxRange(ecg.channels) = 900
          /\ Len(ComputeChannelLayouts(ecg)) = 1

\* the channel of the largest range was hidden and another is still visible
C19_Witness ==
  /\ ecg.lastCall = "hide"
  /\ ecg.arg = 1
  /\ Len(ecg.channels) = 3
  /\ ecg.channels[2].max - ecg.channels[2].min = 1800
  /\ VisibleIndices(ecg) = {0}
  /\ ecg.channelScale = Q(1, 75)

\* ---------------------------------------------------------------- C20
\* C20: every enabled viewport of a GPU type is on exactly one context of the
\* pool, from its enable to its disable the context stays the same, and a
\* viewport of a custom-pipeline type has no assignment record in the pool.
C20_OneContextWhileEnabled ==
  /\ [](\A id \in DOMAIN vp :
          IF UsesCustomPipeline(vp[id].type)
          THEN PoolContextOf(pool, id) = -1
          ELSE PoolContextOf(pool, id) \in Contexts)
  /\ [][\A id \in GpuViewports :
          (id \in DOMAIN vp' /\ ~UsesCustomPipeline(vp'[id].type))
            => PoolContextOf(pool', id) = PoolContextOf(pool, id)]_vars

\* ---------------------------------------------------------------- C21
\* the viewports that enter the engine in a step
Enabled == DOMAIN vp' \ DOMAIN vp

\* C21: the context given to a stack viewport is the number of viewports
\* that hold an assignment in the pool when it is enabled, modulo the
\* number of contexts, whatever viewports (custom ones, which hold none,
\* included) were enabled and disabled before.
C21_IndexIsAssignedCountModN ==
  [][\A id \in Enabled :
       vp'[id].type = "STACK" =>
         PoolContextOf(pool', id)
           = Cardinality(DOMAIN pool.viewportToContext) % poolSize]_vars

\* ---------------------------------------------------------------- C22
\* C22: an enabled viewport of a GPU type other than stack is on context 0,
\* whatever the number of contexts and of viewports enabled before it.
C22_OthersOnContextZero ==
  \A id \in GpuViewports :
    vp[id].type # "STACK" => PoolContextOf(pool, id) = 0

\* C22: with two contexts, a volume viewport enabled third is on context 0
\* while a stack viewport is on context 1
C22_Witness ==
  /\ poolSize = 2
  /\ Len(viewportOrder) = 3
  /\ vp[viewportOrder[3]].type = "VOLUME_3D"
  /\ PoolContextOf(pool, viewportOrder[3]) = 0
  /\ vp[viewportOrder[2]].type = "STACK"
  /\ PoolContextOf(pool, viewportOrder[2]) = 1

\* ---------------------------------------------------------------- C23
\* a source of the WaveformData element that can be used: a Value, an
\* InlineBinary or a BulkDataURI that is not empty, a retrieveBulkData that
\* is a function
Available(wd, key) ==
  IF key = "retrieveBulkData" THEN wd[key] = "function"
  ELSE wd[key] \notin {"absent", "null", ""}

AvailableSources(wd) == {i \in 1..4 : Available(wd, SourceKeys[i])}

\* C23: retrieveBulkData takes the first available source in the order
\* Value, InlineBinary, retrieveBulkData function, BulkDataURI; it rejects
\* with an error whose message holds 'No data source found in WaveformData'
\* exactly when none of the four is available, and otherwise rejects only when the source it took fails;
\* getECGModule returns null when the metadata has no waveform sequence.
C23_FirstAvailableSource ==
  /\ loader.lastCall = "retrieveBulkData" =>
       LET avail == AvailableSources(loader.m.waveformData)
           r == loader.result
       IN /\ (r.kind = "rejected"
               /\ r.error = "[ECGHelpers] No data source found in WaveformData")
               <=> avail = {}
          /\ avail # {} =>
               /\ r.source \in {SourceKeys[i] : i \in avail}
               /\ \A i \in avail :
                    r.source = SourceKeys[i] => \A j \in avail : i <= j
               /\ r.kind = "rejected" =>
                    r.source \in {"retrieveBulkData", "BulkDataURI"}
  /\ loader.lastCall = "getECGModule" =>
       (loader.metadata.sequence = "absent" => loader.module = "null")

\* C23: a BulkDataURI and a bulk data function are both there and the
\* function was taken
C23_Witness ==
  /\ loader.lastCall = "retrieveBulkData"
  /\ loader.m.waveformData.BulkDataURI = "url"
  /\ loader.m.waveformData.retrieveBulkData = "function"
  /\ loader.m.waveformData.InlineBinary = ""
  /\ loader.result.kind = "resolved"
  /\ loader.result.source = "retrieveBulkData"

\* ---------------------------------------------------------------- C24
\* the signed little-endian 16-bit value of the two bytes at offset, a byte
\* beyond the end of the buffer being 0
SignedLE16(bytes, offset) ==
  LET lo == IF offset + 1 <= Len(bytes) THEN bytes[offset + 1] ELSE 0
      hi == IF offset + 2 <= Len(bytes) THEN bytes[offset + 2] ELSE 0
      u == lo + 256 * hi
  IN IF u >= 32768 THEN u - 65536 ELSE u

\* C24: for 16-bit 'SS' data the decoded list has numberOfChannels arrays
\* of numberOfSamples samples, sample i of channel c being the signed
\* little-endian 16-bit value at byte offset 2 * (i * numberOfChannels + c)
\* and 0 beyond the end of the buffer; any other format gives the empty list.
C24_DecodesInterleaved ==
  (/\ loader.lastCall = "retrieveBulkData"
   /\ loader.result.kind = "resolved"
   /\ loader.result.source # "Value") =>
    LET m == loader.m
        data == loader.result.data
    IN IF m.bits = 16 /\ m.type = "SS"
       THEN /\ Len(data) = m.numberOfChannels
            /\ \A c \in 0..(m.numberOfChannels - 1) :
                 /\ Len(data[c + 1]) = m.numberOfSamples
                 /\ \A i \in 0..(m.numberOfSamples - 1) :
                      data[c + 1][i + 1] =
                        SignedLE16(m.bytes, 2 * (i * m.numberOfChannels + c))
       ELSE data = <<>>

\* C24: two channels of two samples from a short buffer: negative values
\* and a sample beyond the end
C24_Witness ==
  /\ loader.lastCall = "retrieveBulkData"
  /\ loader.result.source = "InlineBinary"
  /\ loader.m.bytes = <<0, 128, 255, 127, 1, 0>>
  /\ loader.result.data = <<<<-32768, 1>>, <<32767, 0>>>>

\* ---------------------------------------------------------------- C25
\* the box placed at height y keeps clear, by half the gap, of box b
ClearOf(y, b) ==
  LET p == tool.placed
      half == TEXT_BOX_GAP \div 2
  IN \/ p.x + p.width < b.x - half
     \/ b.x + b.width + half < p.x
     \/ QLess(QAdd(y, QInt(p.height)), QInt(b.y - half))
     \/ QLess(QInt(b.y + b.height + half), y)

\* the box placed at height y keeps clear of every registered box
Free(y) == \A i \in 1..Len(tool.boxes) : ClearOf(y, tool.boxes[i])

\* the first registered box that blocks the box placed at height y
Blocker(y) ==
  tool.boxes[CHOOSE i \in 1..Len(tool.boxes) :
               /\ ~ClearOf(y, tool.boxes[i])
               /\ \A j \in 1..(i - 1) : ClearOf(y, tool.boxes[j])]

RECURSIVE PushedDown(_, _)
\* y moved below its blockers, one after the other, at most k times
PushedDown(y, k) ==
  IF k = 0 \/ Free(y) THEN y
  ELSE PushedDown(QInt(Blocker(y).y + Blocker(y).height + TEXT_BOX_GAP), k - 1)

RECURSIVE PushedUp(_, _)
\* y moved above its blockers, one after the other, at most k times
PushedUp(y, k) ==
  IF k = 0 \/ Free(y) THEN y
  ELSE PushedUp(QInt(Blocker(y).y - tool.placed.height - TEXT_BOX_GAP), k - 1)

\* the box placed at height y is inside the margins of the element
Fits(y) ==
  /\ QLeq(QInt(tool.placed.margin), y)
  /\ QLeq(QAdd(y, QInt(tool.placed.height)), QInt(tool.placed.maxY))

\* C25: when the default position overlaps a registered box, the position
\* returned is the one moved down past the blocking boxes if that is free
\* and fits, else the one moved up if that is free and fits, else the
\* default; a returned position that differs from the default overlaps no
\* registered box; the search takes at most 30 steps in each direction.
C25_NudgedDownThenUp ==
  (/\ tool.lastCall = "getTextBoxCoordsCanvas"
   /\ tool.svgLayer
   /\ ~Free(tool.placed.y)) =>
    LET y == tool.placed.y
        r == tool.result
        down == PushedDown(y, 30)
        up == PushedUp(y, 30)
    IN /\ r.x = tool.placed.x
       /\ r.steps <= 60
       /\ r.y # y => (Free(r.y) /\ Fits(r.y))
       /\ r.y = IF Free(down) /\ Fits(down) THEN down
                ELSE IF Free(up) /\ Fits(up) THEN up
                ELSE y

\* C25: the box could not go below the box at 330 and went above it
C25_Witness ==
  /\ tool.lastCall = "getTextBoxCoordsCanvas"
  /\ tool.svgLayer
  /\ tool.placed.y = QInt(329)
  /\ \E i \in 1..Len(tool.boxes) : tool.boxes[i].y = 330
  /\ ~Free(tool.placed.y)
  /\ tool.result.y = QInt(257)

\* ---------------------------------------------------------------- C26
\* C26: when the draw pass of a viewport has completed, no renderer of its
\* context and no widget renderer draws; a skipped pass leaves the draw
\* flags of the renderers and of the widget renderers as they were.
C26_FlagsResetAfterPass ==
  /\ [][(pc = "draw" /\ pc' # "draw") =>
          /\ \A x \in DOMAIN renderers'[PoolContextOf(pool, Head(queue))] :
               ~renderers'[PoolContextOf(pool, Head(queue))][x].draw
          /\ \A w \in DOMAIN widgets' : ~widgets'[w].draw]_vars
  /\ [][(hist'.op = "skip" /\ queue' # queue) =>
          (renderers' = renderers /\ widgets' = widgets)]_vars

\* C26: a pass has completed on a context that two viewports share, both
\* of them with a widget
C26_Witness ==
  /\ hist.op = "copy"
  /\ LET ci == PoolContextOf(pool, hist.rendered[Len(hist.rendered)])
     IN /\ Cardinality(OnContext(ci)) = 2
        /\ OnContext(ci) \subseteq DOMAIN widgets
        /\ OnContext(ci) \subseteq DOMAIN renderers[ci]
        /\ \A x \in DOMAIN renderers[ci] : ~renderers[ci][x].draw

\* ---------------------------------------------------------------- C27
\* the viewports that hold an assignment to context ci
AssignedTo(ci) ==
  {id \in DOMAIN pool.viewportToContext : pool.viewportToContext[id] = ci}

\* m is the largest of the numbers in S, and 0 when there is none
IsLargest(m, S) ==
  /\ \A n \in S : n <= m
  /\ IF S = {} THEN m = 0 ELSE m \in S

\* C27: after any sequence of enables, resizes, frames and disables, the
\* maximum size of a context is the largest requested width and the largest
\* requested height of the viewports assigned to it, so it also shrinks
\* when the largest viewport shrinks or is released.
C27_MaxIsLargestAssigned ==
  /\ DOMAIN pool.viewportToContext = GpuViewports
  /\ \A ci \in Contexts :
       /\ IsLargest(PoolMaxSize(pool, ci)[1],
                    {vp[id].sWidth : id \in AssignedTo(ci)})
       /\ IsLargest(PoolMaxSize(pool, ci)[2],
                    {vp[id].sHeight : id \in AssignedTo(ci)})

\* C27: every viewport is enabled 3 wide; a resize has left a context with
\* two viewports 2 wide and the maximum has followed
C27_Witness ==
  /\ hist.op = "resize"
  /\ \E ci \in Contexts :
       /\ Cardinality(AssignedTo(ci)) = 2
       /\ PoolMaxSize(pool, ci) = <<2, 2>>

\* ---------------------------------------------------------------- C28
\* C28: when a frame callback has completed, no frame is scheduled and no
\* viewport is flagged: every viewport flagged when the callback fired has
\* left _needsRender; when none was flagged as the callback fired, nothing
\* was rendered, no event was triggered and no frame is scheduled.
C28_FrameLeavesIdleAndClean ==
  /\ hist.op = "frameEnd" =>
       /\ pc = "idle"
       /\ ~animationFrameSet
       /\ needsRender = <<>>
       /\ hist.flaggedAtFrame # <<>>
       /\ SeqToSet(hist.rendered) \cup hist.skipped
            = SeqToSet(hist.flaggedAtFrame)
  /\ (hist.op = "frameStart" /\ pc = "idle") =>
       /\ hist.flaggedAtFrame = <<>>
       /\ needsRender = <<>>
       /\ ~animationFrameSet
       /\ hist.rendered = <<>>
       /\ hist.skipped = {}
       /\ hist.events = <<>>

\* C28: a frame has completed in which one of two flagged viewports was
\* rendered and the pass of the other was skipped
C28_Witness ==
  /\ hist.op = "frameEnd"
  /\ Len(hist.flaggedAtFrame) = 2
  /\ Len(hist.rendered) = 1
  /\ Cardinality(hist.skipped) = 1
  /\ needsRender = <<>>

\* ---------------------------------------------------------------- C29
\* the step is an applied resize that keeps the camera
AppliedKeepingCamera ==
  /\ ViewportsNeedingResize # {}
  /\ ~animationFrameSet
  /\ \E immediate \in BOOLEAN : resize(TRUE, immediate)

\* C29: an applied resize that keeps the camera leaves a viewport with a
\* display area its rotation and its flip and gives it the zoom of the camera
\* reset, and leaves a viewport without a display area the camera it had.
C29_KeptCameraAcrossResize ==
  [][AppliedKeepingCamera =>
       \A id \in SeqToSet(VtkDrivenViewports) :
         IF vp[id].displayArea
         THEN /\ vp'[id].camera.rotation = vp[id].camera.rotation
              /\ vp'[id].camera.flipHorizontal = vp[id].camera.flipHorizontal
              /\ vp'[id].camera.zoom = ResetCameraForResize(vp[id]).zoom
         ELSE vp'[id].camera = vp[id].camera]_vars

\* C29: after a resize one viewport with a display area has the rotation and
\* flip the user set and the zoom of the reset, and one without a display
\* area has the whole camera the user set
C29_Witness ==
  /\ hist.op = "resize"
  /\ ~hist.deferred
  /\ \E a, b \in DOMAIN vp :
       /\ vp[a].displayArea
       /\ vp[a].camera = [UserCamera EXCEPT !.zoom = DefaultCamera.zoom]
       /\ ~vp[b].displayArea
       /\ vp[b].camera = UserCamera

\* ---------------------------------------------------------------- C30
\* the step is a resize that was applied
AppliedResize ==
  /\ ViewportsNeedingResize # {}
  /\ ~animationFrameSet
  /\ \E keepCamera \in BOOLEAN, immediate \in BOOLEAN :
       resize(keepCamera, immediate)

\* the displayed size has a zero side or is the rendered size
KeepsRequestedSize(id) ==
  \/ client[id][1] = 0
  \/ client[id][2] = 0
  \/ client[id] = <<canvas[id].width, canvas[id].height>>

\* the larger of the minimum viewport dimension and n
ClampedUp(n) == IF n < VIEWPORT_MIN_SIZE THEN VIEWPORT_MIN_SIZE ELSE n

\* C30: an applied resize leaves the requested size of a viewport whose
\* displayed size has a zero side or equals its rendered size, and gives every
\* other viewport its displayed size with each side below the minimum raised
\* to the minimum, so no side it sets is below the minimum.
C30_ResizeClampsToMinimum ==
  [][AppliedResize =>
       \A id \in SeqToSet(VtkDrivenViewports) :
         IF KeepsRequestedSize(id)
         THEN Footprint(vp'[id]) = Footprint(vp[id])
         ELSE /\ vp'[id].sWidth = ClampedUp(client[id][1])
              /\ vp'[id].sHeight = ClampedUp(client[id][2])
              /\ vp'[id].sWidth >= VIEWPORT_MIN_SIZE
              /\ vp'[id].sHeight >= VIEWPORT_MIN_SIZE]_vars

\* C30: a resize was applied; it raised the displayed width 1 of one viewport
\* to the minimum and left the requested size of another, displayed with
\* width zero, as it was
C30_Witness ==
  /\ hist.op = "resize"
  /\ ~hist.deferred
  /\ \E a, b \in DOMAIN vp :
       /\ client[a] = <<1, 3>>
       /\ Footprint(vp[a]) = <<VIEWPORT_MIN_SIZE, 3>>
       /\ client[b] = <<0, 3>>
       /\ Footprint(vp[b]) = DefaultCanvas

\* ---------------------------------------------------------------- C31
\* q is min(1, a / b) as a fraction
IsMinOneOf(q, a, b) ==
  IF a >= b THEN q[1] = q[2] ELSE q[1] * b = q[2] * a

\* C31: while a viewport is being drawn, the rectangle of its renderer is
\* min(1, sWidth / maximum width) by min(1, sHeight / maximum height), with
\* the maximum the pool holds for its context at that moment.
C31_DrawnRectFromCurrentMaximum ==
  pc = "draw" =>
    LET id == Head(queue)
        maxSize == PoolMaxSize(pool, PoolContextOf(pool, id))
        rect == renderers[PoolContextOf(pool, id)][id].viewport
    IN /\ IsMinOneOf(rect[1], vp[id].sWidth, maxSize[1])
       /\ IsMinOneOf(rect[2], vp[id].sHeight, maxSize[2])

\* C31: a viewport of width 2 is drawn on a context whose maximum another
\* viewport holds at width 3
C31_Witness ==
  /\ pc = "draw"
  /\ Footprint(vp[Head(queue)]) = <<2, 2>>
  /\ PoolMaxSize(pool, PoolContextOf(pool, Head(queue))) = <<3, 2>>
  /\ renderers[PoolContextOf(pool, Head(queue))][Head(queue)].viewport
       = <<<<2, 3>>, <<1, 1>>>>

\* ---------------------------------------------------------------- C32
\* C32: after a load the height of the content is the width of the content
\* times the height of the canvas over its width, whatever the ranges of the
\* channels are.
C32_TotalHeightMatchesAspect ==
  ecg.lastCall = "setEcg" =>
    ecg.ecgHeight =
      QMul(QInt(ecg.ecgWidth), Q(ecg.offset[2], ecg.offset[1]))

\* ---------------------------------------------------------------- C33
\* the most doublings looked for in a grid unit
MaxDoublings == 12

\* C33: with a scale above 0 the grid is drawn with the least unit
\* 100 * 2^k whose product with the scale is at least 8, reached after k
\* doublings, and the major horizontal spacing is 5 times the minor one; with
\* a scale of 0 or less nothing is drawn and the unit is never doubled.
C33_LeastDoubledUnit ==
  ecg.loaded =>
    IF QLess(QInt(0), ecg.channelScale)
    THEN /\ ecg.grid.drawn
         /\ \E k \in 0..MaxDoublings :
              /\ ecg.grid.iterations = k
              /\ ecg.grid.hGridUnit = 100 * 2^k
              /\ QLeq(QInt(MIN_LINE_SPACING),
                      QMul(QInt(100 * 2^k), ecg.channelScale))
              /\ \A j \in 0..(k - 1) :
                   QLess(QMul(QInt(100 * 2^j), ecg.channelScale),
                         QInt(MIN_LINE_SPACING))
         /\ ecg.grid.minorH = QMul(QInt(ecg.grid.hGridUnit), ecg.channelScale)
         /\ ecg.grid.majorH = QMul(QInt(5), ecg.grid.minorH)
    ELSE /\ ~ecg.grid.drawn
         /\ ecg.grid.iterations = 0
         /\ ecg.grid.minorStrokeH \o ecg.grid.minorStrokeV
              \o ecg.grid.majorStrokeH \o ecg.grid.majorStrokeV = <<>>

\* C33: a grid whose unit was doubled and lies exactly 8 apart
C33_Witness ==
  /\ ecg.loaded
  /\ ecg.grid.drawn
  /\ ecg.grid.iterations >= 1
  /\ ecg.grid.minorH = QInt(MIN_LINE_SPACING)

\* ---------------------------------------------------------------- C34
\* how often the position x is in the stroke
TimesDrawn(stroke, x) == Cardinality({i \in DOMAIN stroke : stroke[i] = x})

\* along an axis of the given extent every multiple of the minor spacing is
\* drawn once, a fifth one in the major stroke and any other in the minor
\* stroke, and no other position is drawn
EachLineOnce(extent, spacing, minorStroke, majorStroke) ==
  LET count == QFloor(QDiv(extent, spacing))
  IN /\ \A h \in 1..count :
          LET x == QMul(QInt(h), spacing)
          IN /\ TimesDrawn(minorStroke, x) = IF h % 5 = 0 THEN 0 ELSE 1
             /\ TimesDrawn(majorStroke, x) = IF h % 5 = 0 THEN 1 ELSE 0
     /\ Len(minorStroke) + Len(majorStroke) = IF count > 0 THEN count ELSE 0

\* C34: in a drawn grid every multiple of the minor spacing within the
\* content is drawn exactly once on each axis: every fifth line with the major
\* stroke only, every other line with the minor stroke only.
C34_EachGridLineOnce ==
  (ecg.loaded /\ ecg.grid.drawn) =>
    /\ EachLineOnce(ecg.ecgHeight, ecg.grid.minorH,
                    ecg.grid.minorStrokeH, ecg.grid.majorStrokeH)
    /\ EachLineOnce(QInt(ecg.ecgWidth), Q(SECONDS_WIDTH, 25),
                    ecg.grid.minorStrokeV, ecg.grid.majorStrokeV)

\* C34: a grid with minor and major lines on both axes
C34_Witness ==
  /\ ecg.loaded
  /\ ecg.grid.drawn
  /\ ecg.grid.minorStrokeH # <<>>
  /\ ecg.grid.majorStrokeH # <<>>
  /\ ecg.grid.minorStrokeV # <<>>
  /\ Len(ecg.grid.majorStrokeV) >= 2

\* ---------------------------------------------------------------- C35
\* C35: outside the frame callback a frame is held to be scheduled only while
\* a frame callback is registered, also after a render of the frame raised;
\* so a viewport flagged then gets a callback.
C35_IdleAfterFatalFailure ==
  pc = "idle" => (animationFrameSet => frameCallbacks >= 1)

\* ---------------------------------------------------------------- C36
\* C36: an IMAGE_RENDERED event, of a viewport of either pipeline, is
\* triggered only by the step that ends the frame, when every flagged viewport
\* has been rendered and no frame is held to be scheduled.
C36_EventsAfterFrame ==
  [][Len(hist'.events) > Len(hist.events) =>
       /\ pc' = "idle"
       /\ ~animationFrameSet'
       /\ needsRender' = <<>>]_vars

\* ---------------------------------------------------------------- C37
\* C37: while a viewport is drawn and copied, the container of its context
\* has the width and height of the maximum the pool holds for the context, so
\* the rectangle copied, (0, maximum height - sHeight, sWidth, sHeight), lies
\* within the container and is the region drawn.
C37_ContainerIsMaximumAtDraw ==
  pc = "draw" =>
    LET id == Head(queue)
        ci == PoolContextOf(pool, id)
    IN /\ container[ci] = PoolMaxSize(pool, ci)
       /\ vp[id].sWidth <= container[ci][1]
       /\ vp[id].sHeight <= container[ci][2]

\* ---------------------------------------------------------------- C38
\* C38: in a loaded waveform viewport canvasToWorld and getCamera return a
\* value, whatever channels are hidden and whatever channels have no samples.
C38_TransformsNeverRaise ==
  ecg.loaded => (~CanvasToWorldRaises(ecg) /\ ~GetCameraRaises(ecg))

\* ---------------------------------------------------------------- C39
\* the displayed size of the viewport is not zero and is not its rendered size
SizeDiffers(id) ==
  /\ client[id][1] # 0
  /\ client[id][2] # 0
  /\ client[id] # <<canvas[id].width, canvas[id].height>>

RECURSIVE PoolAfterUpdates(_, _, _)
\* the pool after it was told the sizes vps of the viewports ids, in order
PoolAfterUpdates(ids, vps, p) ==
  IF ids = <<>> THEN p
  ELSE PoolAfterUpdates(Tail(ids), vps,
         PoolUpdateViewportSize(p, Head(ids), vps[Head(ids)].sWidth,
                                vps[Head(ids)].sHeight))

\* the step is a call of resize with these arguments, outside a frame
ResizeCalled(keepCamera) ==
  /\ ~animationFrameSet
  /\ \E immediate \in BOOLEAN : resize(keepCamera, immediate)

\* what a call of resize does when the size of some viewport differs
ResizeTouchesAll(keepCamera) ==
  LET ids == VtkDrivenViewports
  IN /\ \A id \in SeqToSet(ids) :
          ~SizeDiffers(id) => Footprint(vp'[id]) = Footprint(vp[id])
     /\ pool' = PoolAfterUpdates(ids, vp', pool)
     /\ \A k \in 1..Len(ids) :
          LET id == ids[k]
              ci == PoolContextOf(pool, id)
              maxSize == PoolMaxSize(
                           PoolAfterUpdates(SubSeq(ids, 1, k), vp', pool), ci)
          IN renderers'[ci][id].viewport =
               <<MinOneRatio(vp'[id].sWidth, maxSize[1]),
                 MinOneRatio(vp'[id].sHeight, maxSize[2])>>
     /\ \A id \in SeqToSet(ids) :
          IF ~keepCamera THEN vp'[id].camera = ResetCameraForResize(vp[id])
          ELSE IF vp[id].displayArea
          THEN vp'[id].camera.zoom = ResetCameraForResize(vp[id]).zoom
          ELSE vp'[id].camera = vp[id].camera

\* C39: a call of resize made while no frame is scheduled, when the size of
\* some viewport differs, changes the requested size of those viewports
\* only, and tells the pool the size, sets the rectangle and resets and
\* reapplies the camera of every viewport of the vtk.js pipeline; when no
\* size differs it changes nothing and flags nothing.
C39_ResizeTouchesAllOrNothing ==
  [][\A keepCamera \in BOOLEAN :
       ResizeCalled(keepCamera) =>
         IF \E id \in SeqToSet(VtkDrivenViewports) : SizeDiffers(id)
         THEN ResizeTouchesAll(keepCamera)
         ELSE UNCHANGED <<vp, pool, container, renderers, canvas,
                          needsRender, animationFrameSet,
                          frameCallbacks>>]_vars

\* C39: after an applied resize a viewport whose size did not differ has the
\* size it had and a rectangle over the maximum that another viewport has
\* grown, and that other viewport has kept the camera the user had set
C39_Witness ==
  /\ hist.op = "resize"
  /\ ~hist.deferred
  /\ \E a, b \in GpuViewports :
       /\ Footprint(vp[a]) = <<3, 3>>
       /\ Footprint(vp[b]) = <<3, 2>>
       /\ client[b] = <<canvas[b].width, canvas[b].height>>
       /\ PoolContextOf(pool, a) = PoolContextOf(pool, b)
       /\ renderers[PoolContextOf(pool, b)][b].viewport = <<<<1, 1>>, <<2, 3>>>>
       /\ vp[a].camera = UserCamera
       /\ ~vp[a].displayArea

\* ---------------------------------------------------------------- C40
\* the viewport has no marker, no observer and no camera handler
NothingInstalled(id) ==
  /\ id \notin orient.actors
  /\ orient.observers[id] = 0
  /\ orient.handlers[id] = 0

\* C40: while the tool is disabled no viewport has a marker, an observer or a
\* camera handler, a viewport outside the tool group has none either, whatever
\* timers were pending, and no viewport ever has more than one observer or
\* more than one camera handler.
C40_NothingAfterDisable ==
  /\ ~orient.listening => \A id \in ToolViewportIds : NothingInstalled(id)
  /\ \A id \in ToolViewportIds \ orient.inGroup : NothingInstalled(id)
  /\ \A id \in ToolViewportIds :
       orient.observers[id] <= 1 /\ orient.handlers[id] <= 1

====
